---- MODULE Spec2Model ----
(***************************************************************************)
(* HelixCore: the emulator host adapter (AxRuntime) and the virtual file   *)
(* store (VirtualFS) as a state machine.                                   *)
(*                                                                         *)
(* 64-bit register values (JavaScript BigInt) are kept at full width as    *)
(* four 16-bit limbs, most significant first: <<l3, l2, l1, l0>>.          *)
(***************************************************************************)
EXTENDS Integers, Sequences, FiniteSets, TLC

\* ------------------------------------------------------------------ bounds
MaxFd     == 4      \* open is not taken once _nextFd exceeds this
MaxInstr  == 3      \* committed syscall instructions per run
MaxRuns   == 2      \* run() entries
MaxOut    == 2      \* sink invocations recorded per run
MaxDbq    == 2      \* IndexedDB requests in flight
MemSize   == 2      \* bytes of guest data buffer
ImageSize == 34     \* bytes of guest data kept
MaxTop    == 2      \* top-level statements after the declaration
MaxStk    == 8      \* stack slots of the generated program
MaxCcOut  == 6      \* bytes on fd 1 before a further printf call
MaxFmt    == 3      \* bytes of a printf format

\* ------------------------------------------------------- 64-bit arithmetic
Limb == 65536

U64(n) == <<0, 0, n \div Limb, n % Limb>>

\* BigInt.asUintN(64, -k) for 0 < k <= 65536
AsUintN64Neg(k) == <<Limb - 1, Limb - 1, Limb - 1, Limb - k>>

IsSmall(x) == Len(x) = 4 /\ x[1] = 0 /\ x[2] = 0 /\ x[3] < 32768

ToNat(x) == x[3] * Limb + x[4]

\* a < b on limb tuples of equal length
RECURSIVE LtLimbs(_, _)
LtLimbs(a, b) ==
  IF a = <<>> THEN FALSE
  ELSE IF Head(a) # Head(b) THEN Head(a) < Head(b)
  ELSE LtLimbs(Tail(a), Tail(b))

Lt64(a, b) == IF Len(a) # Len(b) THEN Len(a) < Len(b) ELSE LtLimbs(a, b)

Le64(a, b) == a = b \/ Lt64(a, b)

\* number of significant bits of one limb
RECURSIVE BitLen(_)
BitLen(n) == IF n = 0 THEN 0 ELSE 1 + BitLen(n \div 2)

RECURSIVE Pow2(_)
Pow2(n) == IF n = 0 THEN 1 ELSE 2 * Pow2(n - 1)

\* x + q on four limbs, q < Limb; the carry out of the top limb gives 2^64
AddLow(x, q) ==
  LET s0 == x[4] + q
      c0 == s0 \div Limb
      s1 == x[3] + c0
      c1 == s1 \div Limb
      s2 == x[2] + c1
      c2 == s2 \div Limb
      s3 == x[1] + c2
  IN  IF s3 >= Limb THEN <<1, 0, 0, 0, 0>>
      ELSE <<s3, s2 % Limb, s1 % Limb, s0 % Limb>>

\* Number(x) for a BigInt x in 0..2^64-1: exact below 2^53, otherwise
\* rounded to 53 significant bits, ties to even.  The result is an integer,
\* kept as limbs (five limbs for 2^64).
NumberOf(x) ==
  IF x[1] < 32 THEN x
  ELSE LET d    == BitLen(x[1]) - 5
           q    == Pow2(d)
           r    == x[4] % q
           base == <<x[1], x[2], x[3], x[4] - r>>
           odd  == ((x[4] \div q) % 2) = 1
       IN  IF 2 * r > q \/ (2 * r = q /\ odd) THEN AddLow(base, q) ELSE base

\* n & 0xFF on a 64-bit value
And255(x) == U64(x[4] % 256)

\* ------------------------------------------------------------ text codecs
REPLACEMENT == 65533

IsCont(b) == b >= 128 /\ b <= 191

\* new TextDecoder().decode(buf): UTF-8, malformed bytes become U+FFFD.
\* Exact for bytes below 0xE0 (one- and two-byte forms).
RECURSIVE Decode(_)
Decode(buf) ==
  IF buf = <<>> THEN <<>>
  ELSE LET b == Head(buf) IN
    IF b < 128 THEN <<b>> \o Decode(Tail(buf))
    ELSE IF b >= 194 /\ b <= 223 /\ Len(buf) >= 2 /\ IsCont(buf[2])
      THEN <<(b - 192) * 64 + (buf[2] - 128)>> \o Decode(Tail(Tail(buf)))
    ELSE <<REPLACEMENT>> \o Decode(Tail(buf))

\* UTF-8 encoding of a text (code points below 0x10000)
RECURSIVE Encode(_)
Encode(text) ==
  IF text = <<>> THEN <<>>
  ELSE LET c == Head(text) IN
    (IF c < 128 THEN <<c>>
     ELSE IF c < 2048 THEN <<192 + (c \div 64), 128 + (c % 64)>>
     ELSE <<224 + (c \div 4096), 128 + ((c \div 64) % 64), 128 + (c % 64)>>)
    \o Encode(Tail(text))

\* ------------------------------------------------------------- VirtualFS
SeedPaths == {"/proc/version", "/proc/cpuinfo", "/etc/hostname", "/etc/os-release"}

\* VirtualFS._seedDefaults: TextEncoder().encode of the four fixed strings
SeedDefaults ==
  [p \in SeedPaths |->
     CASE p = "/proc/version" ->
            <<76, 105, 110, 117, 120, 32, 52, 46, 53, 32, 98, 108, 105, 110,
              107, 45, 49, 46, 48, 32, 120, 56, 54, 95, 54, 52, 32, 71, 78,
              85, 47, 76, 105, 110, 117, 120, 10>>
       [] p = "/proc/cpuinfo" ->
            <<109, 111, 100, 101, 108, 32, 110, 97, 109, 101, 32, 58, 32, 66,
              108, 105, 110, 107, 32, 120, 56, 54, 45, 54, 52, 32, 86, 105,
              114, 116, 117, 97, 108, 32, 67, 80, 85, 10>>
       [] p = "/etc/hostname" ->
            <<104, 101, 108, 105, 120, 99, 111, 114, 101, 10>>
       [] p = "/etc/os-release" ->
            <<78, 65, 77, 69, 61, 34, 72, 101, 108, 105, 120, 67, 111, 114,
              101, 32, 79, 83, 34, 10, 86, 69, 82, 83, 73, 79, 78, 61, 34,
              48, 46, 49, 34, 10>>]

\* Map.set / Map.delete on a function with a varying domain
MapSet(m, k, v) == [x \in DOMAIN m \cup {k} |-> IF x = k THEN v ELSE m[x]]

MapDelete(m, k) == [x \in DOMAIN m \ {k} |-> m[x]]

\* ------------------------------------------------------------ AxRuntime
heapStart == 8388608          \* 0x800000n
HeapLimitBytes == 16777216    \* 16n * 1024n * 1024n
PageSize == 4096

EBADF  == AsUintN64Neg(9)
EIO    == AsUintN64Neg(5)
ENOENT == AsUintN64Neg(2)
EINVAL == AsUintN64Neg(22)
ENOSYS == AsUintN64Neg(38)

VARIABLES
  initialized,   \* AxRuntime._initialized
  vfs,           \* AxRuntime.vfs is non-null
  onStdout,      \* AxRuntime.onStdout is a function
  onStderr,      \* AxRuntime.onStderr is a function
  fds,           \* AxRuntime._fds : fd -> [path, offset]
  nextFd,        \* AxRuntime._nextFd
  brk,           \* AxRuntime._brk
  heapMapped,    \* AxRuntime._heapMapped
  vmem,          \* VirtualFS._mem : path -> bytes
  vdb,           \* contents of the IndexedDB object store
  dbOpen,        \* VirtualFS._db is non-null
  dbq,           \* IndexedDB requests in flight, oldest first
  phase,         \* "idle" | "running" | "suspended" | "failed"
  exitCode,      \* exitCode of run(), kept as the exit code of its result
  result,        \* how the last run() settled: "none" | "returned" | "rejected"
  instrCount,    \* local instrCount of run()
  regs,          \* guest registers at the last syscall instruction; after
                 \* run() returned, the register snapshot of its result
  rax,           \* value the hook wrote to RAX
  gmem,          \* guest data buffer
  heapSect,      \* size of the emulator's 'heap' section (0: not mapped)
  out,           \* sink invocations of the current run, in order
  wlog,          \* write syscalls on fd 1 / fd 2 of the current run, in order
  opened,        \* fds returned by open in the current run, in order
  closed,        \* fds closed in the current run
  brkCalls,      \* a brk syscall was handled in the current run
  prev,          \* the last run() entry found _fds, _nextFd, _brk or _heapMapped off their initial values
  runs,          \* run() entries so far
  lastW,         \* file store API: path -> bytes of its last write, while no delete followed
  rd,            \* file store API: the read that returned since the last write or delete
  prog,          \* C front end: the parsed program [nodes, locals]
  compiled,      \* C front end: what compile() returned for prog
  ccPc,          \* generated code: line of the next instruction
  ccStk,         \* generated code: the stack from the saved %rbp upwards
  ccBp,          \* generated code: the slot %rbp points to
  ccRegs,        \* generated code: register values
  ccCmp,         \* generated code: sign of the last comparison
  ccOut,         \* generated code: bytes written to fd 1
  ccStatus,      \* generated code: "idle", "running", "exited" or "fault"
  ccExit,        \* generated code: exit status
  pfMem,         \* __printf: the data section holding the format
  pfVal,         \* __printf: the argument in %rsi
  pfWrites,      \* __printf: the write calls made, in order
  pfRax,         \* __printf: %rax
  pfStatus,      \* __printf: "idle", "called" or "returned"
  pfReads,       \* __printf: the addresses movzbq (%r12) read, in order
  pfEntry,       \* __printf: rbx, r12, r13, rbp and rsp at the call
  pfRegs,        \* __printf: the same registers now
  smMap,         \* step loop: the sourceMap argument of run()
  smRip,         \* step loop: RIP read in the catch block
  smErr,         \* step loop: the error run() rejected with
  smStatus,      \* step loop: "idle", "faulted" or "rejected"
  asmSt,         \* ELF builder: the AssemblyState handed to _buildElf
  elf,           \* ELF builder: what _buildElf returned or threw
  guestLen,      \* syscall instructions the guest program executes at most
  stSrc,         \* C front end: the source text, as character codes
  stOut,         \* C front end: the string labels compile() used for stSrc
  exTree,        \* C front end: the expression compiled, as its reference tree
  appRunning,    \* App: the _running flag
  runBtn,        \* App: TRUE while the run button is enabled
  inFlight,      \* App: runProgram calls waiting at await engine.execute
  lastExit,      \* App: the exit code the status bar shows, -1 for none
  engineCalls,   \* App: engine.execute calls made
  asmCalls,      \* App: compiler.assembleGas calls made
  runEvents,     \* App: run events delivered
  lastEnd        \* App: how the last finished run ended

vars == <<initialized, vfs, onStdout, onStderr, fds, nextFd, brk, heapMapped,
          vmem, vdb, dbOpen, dbq, phase, exitCode, result, instrCount, regs,
          rax, gmem, heapSect, out, wlog, opened, closed, brkCalls, prev,
          runs, lastW, rd, prog, compiled, ccPc, ccStk, ccBp, ccRegs, ccCmp, ccOut,
          ccStatus, ccExit, pfMem, pfVal, pfWrites, pfRax, pfStatus,
          pfReads, pfEntry, pfRegs,
          smMap, smRip, smErr, smStatus, asmSt, elf, guestLen,
          stSrc, stOut, exTree, appRunning, runBtn, inFlight, lastExit,
          engineCalls, asmCalls, runEvents, lastEnd>>

rtVars   == <<fds, nextFd, brk, heapMapped>>
vfsVars  == <<vmem, vdb, dbOpen, dbq>>
cfgVars  == <<initialized, vfs, onStdout, onStderr>>
histVars == <<out, wlog, opened, closed, brkCalls>>
emuVars  == <<gmem, heapSect>>
fsVars   == <<lastW, rd>>
ccVars   == <<prog, compiled, ccPc, ccStk, ccBp, ccRegs, ccCmp, ccOut, ccStatus, ccExit>>
pfVars   == <<pfMem, pfVal, pfWrites, pfRax, pfStatus, pfReads, pfEntry, pfRegs>>
smVars   == <<smMap, smRip, smErr, smStatus>>
elfVars  == <<asmSt, elf>>
stVars   == <<stSrc, stOut>>
appVars  == <<appRunning, runBtn, inFlight, lastExit, engineCalls, asmCalls,
              runEvents, lastEnd>>
extVars  == <<smVars, elfVars, guestLen, stVars, exTree, appVars>>
auxVars  == <<fsVars, ccVars, pfVars, extVars>>
rtAll    == <<cfgVars, rtVars, vfsVars, phase, exitCode, result, instrCount,
              regs, rax, emuVars, histVars, prev, runs>>

EmptyMap == [x \in {} |-> 0]

\* no read of the file store has returned
NoRead == [path |-> "", data |-> <<>>]

\* 7F 'E' 'L' 'F'
ElfMagic == <<127, 69, 76, 70>>

\* a file of n bytes that starts with the magic, the other bytes being fill
ElfBytes(n, fill) == [i \in 1 .. n |-> IF i <= 4 THEN ElfMagic[i] ELSE fill]

\* the file an upload of an earlier session has left in the IndexedDB store
FileA == ElfBytes(ImageSize, 1)

InitDb == [p \in {"/home/user/a"} |-> FileA]

\* the data bytes of the loaded program: the two bytes of U+00E9, then 'A's
GuestImage ==
  [i \in 1 .. ImageSize |-> IF i = 1 THEN 195 ELSE IF i = 2 THEN 169 ELSE 65]

\* null-terminated path strings in the guest's read-only data, by pointer
GuestPaths == <<"/etc/hostname", "/home/user/a", "/nonexistent">>

ZeroRegs == [num |-> U64(0), rdi |-> U64(0), rsi |-> U64(0), rdx |-> U64(0),
             r10 |-> U64(0)]

\* the runtime and the file store after construction
InitRt ==
  /\ initialized = FALSE
  /\ vfs = FALSE
  /\ onStdout = FALSE
  /\ onStderr = FALSE
  /\ fds = EmptyMap
  /\ nextFd = 3
  /\ brk = heapStart
  /\ heapMapped = FALSE
  /\ vmem = SeedDefaults
  /\ vdb = InitDb
  /\ dbOpen = FALSE
  /\ dbq = <<>>
  /\ phase = "idle"
  /\ exitCode = U64(0)
  /\ result = "none"
  /\ instrCount = 0
  /\ regs = ZeroRegs
  /\ rax = U64(0)
  /\ gmem = GuestImage
  /\ heapSect = 0
  /\ out = <<>>
  /\ wlog = <<>>
  /\ opened = <<>>
  /\ closed = {}
  /\ brkCalls = FALSE
  /\ prev = FALSE
  /\ runs = 0
  /\ lastW = EmptyMap
  /\ rd = NoRead

RegNames == {"%rax", "%rdi", "%rsi", "%rdx", "%rcx", "%r8", "%r9"}

NoProg == [nodes |-> <<>>, locals |-> <<>>]

\* no program has been compiled
CcIdle ==
  /\ prog = NoProg
  /\ compiled = [assembly |-> <<>>, sourceMap |-> <<>>, strings |-> <<>>]
  /\ ccPc = 0
  /\ ccStk = <<>>
  /\ ccBp = 0
  /\ ccRegs = [r \in RegNames |-> 0]
  /\ ccCmp = 0
  /\ ccOut = <<>>
  /\ ccStatus = "idle"
  /\ ccExit = 0

\* rbx, r12, r13, rbp and rsp before any call
NoRegs == [rbx |-> 0, r12 |-> 0, r13 |-> 0, rbp |-> 0, rsp |-> 0]

\* __printf has not been called
PfIdle ==
  /\ pfMem = <<>>
  /\ pfVal = U64(0)
  /\ pfWrites = <<>>
  /\ pfRax = U64(0)
  /\ pfStatus = "idle"
  /\ pfReads = <<>>
  /\ pfEntry = NoRegs
  /\ pfRegs = NoRegs

NoError == [kind |-> "none", line |-> 0, col |-> 0]

\* no step has thrown
SmIdle ==
  /\ smMap = <<>>
  /\ smRip = 0
  /\ smErr = NoError
  /\ smStatus = "idle"

NoAsmState == [textLen |-> 0, dataLen |-> 0, bssLen |-> 0, start |-> -1,
               relocations |-> <<>>]
NoElf == [status |-> "none", bytes |-> <<>>]

\* nothing has been assembled
ElfIdle ==
  /\ asmSt = NoAsmState
  /\ elf = NoElf

\* the guest programs explored issue up to MaxInstr syscalls
GuestShort == guestLen = MaxInstr

NoText == [status |-> "none", data |-> <<>>, strs |-> <<>>, labels |-> <<>>]

\* no source text has been compiled
StIdle ==
  /\ stSrc = <<>>
  /\ stOut = NoText

\* no expression was chosen
ExIdle == exTree = [k |-> "none"]

\* App after init(): no run yet, the run button enabled
AppIdle ==
  /\ appRunning = FALSE
  /\ runBtn = TRUE
  /\ inFlight = 0
  /\ lastExit = -1
  /\ engineCalls = 0
  /\ asmCalls = 0
  /\ runEvents = 0
  /\ lastEnd = "none"

ExtIdle == SmIdle /\ ElfIdle /\ GuestShort /\ StIdle /\ ExIdle /\ AppIdle

Init == InitRt /\ CcIdle /\ PfIdle /\ ExtIdle

\* ------------------------------------------------------- host operations
\* The step loop awaits promises that are already settled, so between two
\* syscalls only microtasks run: events of the host (user actions, IndexedDB
\* callbacks) are dispatched while no run is in progress or while the hook
\* waits for an IndexedDB request.
HostTurn == phase \in {"idle", "suspended"}

\* AxRuntime.load
Load ==
  /\ phase = "idle"
  /\ ~initialized
  /\ initialized' = TRUE
  /\ UNCHANGED <<vfs, onStdout, onStderr, rtVars, vfsVars, phase, exitCode,
                 result, instrCount, regs, rax, emuVars, histVars, prev, runs>>
  /\ UNCHANGED auxVars

\* the caller assigns runtime.vfs
AttachVfs ==
  /\ phase = "idle"
  /\ ~vfs
  /\ vfs' = TRUE
  /\ UNCHANGED <<initialized, onStdout, onStderr, rtVars, vfsVars, phase,
                 exitCode, result, instrCount, regs, rax, emuVars, histVars,
                 prev, runs>>
  /\ UNCHANGED auxVars

\* the caller assigns runtime.onStdout: a function, or null again
SetStdout ==
  /\ HostTurn
  /\ onStdout' = ~onStdout
  /\ UNCHANGED <<initialized, vfs, onStderr, rtVars, vfsVars, phase, exitCode,
                 result, instrCount, regs, rax, emuVars, histVars, prev, runs>>
  /\ UNCHANGED auxVars

\* the caller assigns runtime.onStderr: a function, or null again
SetStderr ==
  /\ HostTurn
  /\ onStderr' = ~onStderr
  /\ UNCHANGED <<initialized, vfs, onStdout, rtVars, vfsVars, phase, exitCode,
                 result, instrCount, regs, rax, emuVars, histVars, prev, runs>>
  /\ UNCHANGED auxVars

\* VirtualFS.open
VfsOpen ==
  /\ HostTurn
  /\ ~dbOpen
  /\ dbOpen' = TRUE
  /\ UNCHANGED <<cfgVars, rtVars, vmem, vdb, dbq, phase, exitCode, result,
                 instrCount, regs, rax, emuVars, histVars, prev, runs>>
  /\ UNCHANGED auxVars

HostPaths == {"/home/user/a"}

\* Compiler.isValidElf
IsValidElf(bytes) == Len(bytes) > 4 /\ SubSeq(bytes, 1, 4) = ElfMagic

\* Compiler.parseElfHeader: view.getBigUint64(24, true) throws a RangeError
\* when the file ends before offset 32
ParseElfHeaderThrows(bytes) == Len(bytes) < 24 + 8

\* files the user uploads: a text, the magic and one more byte, and the ELF
\* file of the earlier session again
HostData == {<<65, 195, 169>>, ElfMagic \o <<2>>, FileA}

\* an ELF file two bytes shorter than the stored one
ShortElf == ElfBytes(ImageSize - 2, 2)

\* VirtualFS.write: the map is updated first, then the put is issued; with
\* no database the put throws and the map keeps the new bytes
VfsWriteOn(p, d) ==
  /\ HostTurn
  /\ vmem' = MapSet(vmem, p, d)
  /\ IF dbOpen
       THEN /\ Len(dbq) < MaxDbq
            /\ dbq' = Append(dbq, [op |-> "put", path |-> p, val |-> d])
       ELSE dbq' = dbq
  /\ UNCHANGED <<cfgVars, rtVars, vdb, dbOpen, phase, exitCode, result,
                 instrCount, regs, rax, emuVars, histVars, prev, runs>>

\* App._handleElfUpload: a file that is not an ELF file is reported and one
\* whose header cannot be parsed throws, both before vfs.write; any other
\* file is stored
HandleElfUpload(p, d) ==
  /\ IsValidElf(d)
  /\ ~ParseElfHeaderThrows(d)
  /\ VfsWriteOn(p, d)

\* the user uploads a file while a program may be running
VfsWrite ==
  /\ \E p \in HostPaths, d \in HostData : HandleElfUpload(p, d)
  /\ vmem' # vmem \/ dbq' # dbq
  /\ UNCHANGED auxVars

\* VirtualFS.delete
VfsDeleteOn(p) ==
  /\ HostTurn
  /\ vmem' = MapDelete(vmem, p)
  /\ IF dbOpen
       THEN /\ Len(dbq) < MaxDbq
            /\ dbq' = Append(dbq, [op |-> "delete", path |-> p, val |-> <<>>])
       ELSE dbq' = dbq
  /\ UNCHANGED <<cfgVars, rtVars, vdb, dbOpen, phase, exitCode, result,
                 instrCount, regs, rax, emuVars, histVars, prev, runs>>

\* the oldest request is a put: VirtualFS._dbPut succeeds
DbPut ==
  /\ HostTurn
  /\ dbq # <<>>
  /\ Head(dbq).op = "put"
  /\ vdb' = MapSet(vdb, Head(dbq).path, Head(dbq).val)
  /\ dbq' = Tail(dbq)
  /\ UNCHANGED <<cfgVars, rtVars, vmem, dbOpen, phase, exitCode, result,
                 instrCount, regs, rax, emuVars, histVars, prev, runs>>
  /\ UNCHANGED auxVars

\* the oldest request is a delete: VirtualFS._dbDelete succeeds
DbDelete ==
  /\ HostTurn
  /\ dbq # <<>>
  /\ Head(dbq).op = "delete"
  /\ vdb' = MapDelete(vdb, Head(dbq).path)
  /\ dbq' = Tail(dbq)
  /\ UNCHANGED <<cfgVars, rtVars, vmem, dbOpen, phase, exitCode, result,
                 instrCount, regs, rax, emuVars, histVars, prev, runs>>
  /\ UNCHANGED auxVars

\* the break is not reset
BrkAtEntryStale == brk

\* this._brk = this._heapStart
BrkAtEntry == heapStart

\* run() goes on without the loaded check
RunRejectsNever == FALSE

\* if (!this._initialized) throw new Error('AxRuntime not loaded ...')
RunRejects == ~initialized

\* AxRuntime.run up to the first step: the not-loaded rejection, then the
\* per-run reset
Run ==
  /\ phase = "idle"
  /\ runs < MaxRuns
  /\ runs' = runs + 1
  /\ IF RunRejects
       THEN /\ result' = "rejected"
            /\ UNCHANGED <<rtVars, phase, exitCode, instrCount, histVars,
                           prev, regs, rax, emuVars>>
       ELSE /\ prev' = (<<fds, nextFd, brk, heapMapped>> # <<EmptyMap, 3, heapStart, FALSE>>)
            /\ exitCode' = U64(0)
            /\ regs' = ZeroRegs
            /\ rax' = U64(0)
            /\ gmem' = GuestImage
            /\ fds' = EmptyMap
            /\ nextFd' = 3
            /\ brk' = BrkAtEntry
            /\ heapMapped' = FALSE
            /\ heapSect' = 0
            /\ instrCount' = 0
            /\ phase' = "running"
            /\ result' = "none"
            /\ out' = <<>>
            /\ wlog' = <<>>
            /\ opened' = <<>>
            /\ closed' = {}
            /\ brkCalls' = FALSE
  /\ UNCHANGED <<cfgVars, vfsVars>>
  /\ UNCHANGED auxVars

\* ------------------------------------------------------- the syscall hook
Null == <<-1>>

Regs(num, rdi, rsi, rdx, r10) ==
  [num |-> num, rdi |-> rdi, rsi |-> rsi, rdx |-> rdx, r10 |-> r10]

\* rt._fds.has(Number(fd))
HasFd(fd) == \E k \in DOMAIN fds : U64(k) = NumberOf(fd)

FdKey(fd) == CHOOSE k \in DOMAIN fds : U64(k) = NumberOf(fd)

\* instance.commit(): the emulator goes on with the next instruction and the
\* step loop counts the instruction
Commit ==
  /\ phase' = "running"
  /\ instrCount' = instrCount + 1
  /\ UNCHANGED <<exitCode, result>>

\* an exception leaves the hook and reaches the catch of the step loop
Throw ==
  /\ phase' = "failed"
  /\ UNCHANGED <<exitCode, result, instrCount>>

InHook == phase = "running" /\ instrCount < guestLen

\* -- write(fd, buf, len) --
WriteFds == {U64(1), U64(2), U64(3)}

\* fd 1 is delivered to both sinks
SinkCallsBoth(fd, text) ==
  IF fd = U64(1)
    THEN (IF onStdout THEN <<[sink |-> "stdout", text |-> text]>> ELSE <<>>)
         \o (IF onStderr THEN <<[sink |-> "stderr", text |-> text]>> ELSE <<>>)
  ELSE IF fd = U64(2) THEN (IF onStderr THEN <<[sink |-> "stderr", text |-> text]>> ELSE <<>>)
  ELSE <<>>

\* the sink invocations one write syscall makes
SinkCalls(fd, text) ==
  IF fd = U64(1) THEN (IF onStdout THEN <<[sink |-> "stdout", text |-> text]>> ELSE <<>>)
  ELSE IF fd = U64(2) THEN (IF onStderr THEN <<[sink |-> "stderr", text |-> text]>> ELSE <<>>)
  ELSE <<>>

\* RAX after a write syscall
WriteRet(fd, len) ==
  IF fd = U64(1) \/ fd = U64(2) THEN len
  ELSE IF ~HasFd(fd) \/ ~vfs THEN EBADF
  ELSE len

SysWrite ==
  /\ InHook
  /\ \E fd \in WriteFds, ptr \in 0 .. MemSize - 1, len \in 1 .. MemSize :
       /\ ptr + len <= MemSize
       /\ (fd = U64(1) \/ fd = U64(2)) => Len(wlog) < MaxOut
       /\ LET buf == SubSeq(gmem, ptr + 1, ptr + len) IN
            /\ regs' = Regs(U64(1), fd, U64(ptr), U64(len), U64(0))
            /\ out' = out \o SinkCalls(fd, Decode(buf))
            /\ wlog' = IF fd = U64(1) \/ fd = U64(2)
                         THEN Append(wlog, [fd |-> fd, buf |-> buf])
                         ELSE wlog
            /\ rax' = WriteRet(fd, U64(len))
  /\ Commit
  /\ UNCHANGED <<cfgVars, rtVars, vfsVars, emuVars, opened, closed, brkCalls,
                 prev, runs>>
  /\ UNCHANGED auxVars

\* -- close(fd) --
CloseFds == {U64(0), U64(3), U64(4), AsUintN64Neg(1)}

\* rt._fds.delete(fd) forgotten: the entry stays in the table
FdsAfterCloseKept(k) == fds

\* the FD table after rt._fds.delete(fd)
FdsAfterClose(k) == MapDelete(fds, k)

SysClose ==
  /\ InHook
  /\ \E fd \in CloseFds :
       /\ regs' = Regs(U64(3), fd, U64(0), U64(0), U64(0))
       /\ IF HasFd(fd)
            THEN /\ fds' = FdsAfterClose(FdKey(fd))
                 /\ closed' = closed \cup {FdKey(fd)}
                 /\ rax' = U64(0)
            ELSE /\ rax' = EBADF
                 /\ UNCHANGED <<fds, closed>>
  /\ Commit
  /\ UNCHANGED <<cfgVars, nextFd, brk, heapMapped, vfsVars, emuVars, out,
                 wlog, opened, brkCalls, prev, runs>>
  /\ UNCHANGED auxVars

\* -- brk(addr) --
HeapLimit == heapStart + HeapLimitBytes

BrkAddrs == {U64(0), U64(heapStart - 1), U64(heapStart), U64(heapStart + 1),
             U64(HeapLimit - 1), U64(HeapLimit), AsUintN64Neg(1)}

\* lower comparison dropped
BrkInRangeNoLower(addr) == Lt64(addr, U64(HeapLimit))

\* upper comparison off by one: addr <= limit
BrkInRangeInclusive(addr) ==
  Le64(U64(heapStart), addr) /\ Le64(addr, U64(HeapLimit))

\* addr >= rt._heapStart && addr < limit
BrkInRange(addr) == Le64(U64(heapStart), addr) /\ Lt64(addr, U64(HeapLimit))

\* (newSize + 4095n) & ~4095n
PadToPage(n) == ((n + (PageSize - 1)) \div PageSize) * PageSize

\* the size of the 'heap' section after an accepted brk(addr)
HeapSectAfter(addr) ==
  LET mapped      == IF heapMapped THEN heapSect ELSE PageSize
      currentSize == brk - heapStart
      paddedSize  == PadToPage(addr - heapStart)
  IN  IF addr > brk /\ paddedSize > currentSize THEN paddedSize ELSE mapped

SysBrk ==
  /\ InHook
  /\ \E addr \in BrkAddrs :
       /\ regs' = Regs(U64(12), addr, U64(0), U64(0), U64(0))
       /\ IF addr = U64(0)
            THEN /\ rax' = U64(brk)
                 /\ UNCHANGED <<brk, heapMapped, heapSect>>
            ELSE IF BrkInRange(addr)
              THEN /\ heapMapped' = TRUE
                   /\ heapSect' = HeapSectAfter(ToNat(addr))
                   /\ brk' = ToNat(addr)
                   /\ rax' = addr
              ELSE /\ rax' = U64(brk)
                   /\ UNCHANGED <<brk, heapMapped, heapSect>>
  /\ brkCalls' = TRUE
  /\ Commit
  /\ UNCHANGED <<cfgVars, fds, nextFd, vfsVars, gmem, out, wlog, opened,
                 closed, prev, runs>>
  /\ UNCHANGED auxVars

\* -- mmap(addr, len, prot, flags, fd, offset) --
MmapFlags == {U64(34), U64(2)}

\* addresses mem_init_zero_anywhere may hand out
MmapAddrs == {<<0, 0, 16, 0>>}

\* flags & MAP_ANON, on Number(flags)
IsAnon(flags) == LET n == NumberOf(flags) IN ((n[Len(n)] \div 32) % 2) = 1

SysMmap ==
  /\ InHook
  /\ \E flags \in MmapFlags, v \in MmapAddrs :
       /\ regs' = Regs(U64(9), U64(0), U64(PageSize), U64(3), flags)
       /\ rax' = IF IsAnon(flags) THEN v ELSE EINVAL
  /\ Commit
  /\ UNCHANGED <<cfgVars, rtVars, vfsVars, emuVars, histVars, prev, runs>>
  /\ UNCHANGED auxVars

\* what is left when run() has settled
DropRun ==
  /\ phase' = "idle"
  /\ instrCount' = 0
  /\ rax' = U64(0)
  /\ gmem' = GuestImage
  /\ heapSect' = 0
  /\ out' = <<>>
  /\ wlog' = <<>>
  /\ opened' = <<>>
  /\ closed' = {}
  /\ brkCalls' = FALSE
  /\ UNCHANGED <<cfgVars, rtVars, vfsVars, prev, runs>>

\* -- exit(code) / exit_group(code) --
ExitCalls == {<<U64(60), U64(0)>>, <<U64(60), U64(256)>>,
              <<U64(231), U64(42)>>, <<U64(231), AsUintN64Neg(1)>>}

\* the exit code run() records
ExitValue(code) == NumberOf(code)

\* instance.stop(): step() reports done, the loop ends and run() returns
\* { exitCode, runtime, instrCount, registers }.  The emulator instance and
\* the locals of run() are gone then; the FD table and the heap fields stay
\* on the runtime.
SysExit ==
  /\ phase = "running"
  /\ \E c \in ExitCalls :
       /\ regs' = Regs(c[1], c[2], U64(0), U64(0), U64(0))
       /\ exitCode' = ExitValue(c[2])
  /\ result' = "returned"
  /\ DropRun
  /\ UNCHANGED auxVars

\* -- any other syscall number --
OtherNums == {U64(999), AsUintN64Neg(1)}

\* the errno without the two's complement
UnknownRetPositive == U64(38)

\* RAX after a syscall the hook does not know
UnknownRet == ENOSYS

SysUnknown ==
  /\ InHook
  /\ \E num \in OtherNums :
       /\ regs' = Regs(num, U64(0), U64(0), U64(0), U64(0))
       /\ rax' = UnknownRet
  /\ Commit
  /\ UNCHANGED <<cfgVars, rtVars, vfsVars, emuVars, histVars, prev, runs>>
  /\ UNCHANGED auxVars

\* -- open(pathname, flags, mode) --
\* lowest free descriptor instead of the counter
OpenFdLowestFree ==
  CHOOSE k \in 3 .. nextFd :
    k \notin DOMAIN fds /\ \A j \in 3 .. k - 1 : j \in DOMAIN fds

\* the fd a successful open hands out: rt._nextFd++
OpenFd == nextFd

\* open after `data = await rt.vfs.read(path)`
OpenFinish(path, data) ==
  /\ IF data = Null
       THEN /\ rax' = ENOENT
            /\ UNCHANGED <<fds, nextFd, opened>>
       ELSE /\ nextFd' = nextFd + 1
            /\ fds' = MapSet(fds, OpenFd, [path |-> path, offset |-> 0])
            /\ rax' = U64(OpenFd)
            /\ opened' = Append(opened, OpenFd)
  /\ Commit

\* VirtualFS._dbGet is issued: without a database this._db.transaction throws
GetRequest(path) == [op |-> "get", path |-> path, val |-> <<>>]

SysOpen ==
  /\ InHook
  /\ nextFd <= MaxFd
  /\ \E i \in DOMAIN GuestPaths :
       LET path == GuestPaths[i] IN
         /\ regs' = Regs(U64(2), U64(i), U64(0), U64(0), U64(0))
         /\ IF ~vfs
              THEN /\ rax' = EIO
                   /\ Commit
                   /\ UNCHANGED <<fds, nextFd, opened, dbq>>
              ELSE IF path \in DOMAIN vmem
                THEN /\ OpenFinish(path, vmem[path])
                     /\ UNCHANGED dbq
                ELSE IF ~dbOpen
                  THEN /\ Throw
                       /\ UNCHANGED <<fds, nextFd, opened, dbq, rax>>
                  ELSE /\ Len(dbq) < MaxDbq
                       /\ dbq' = Append(dbq, GetRequest(path))
                       /\ phase' = "suspended"
                       /\ UNCHANGED <<fds, nextFd, opened, rax, exitCode,
                                      result, instrCount>>
  /\ UNCHANGED <<cfgVars, brk, heapMapped, vmem, vdb, dbOpen, emuVars, out,
                 wlog, closed, brkCalls, prev, runs>>
  /\ UNCHANGED auxVars

\* the value VirtualFS._dbGet resolves with (undefined when the key is absent)
DbValue(path) == IF path \in DOMAIN vdb THEN vdb[path] ELSE Null

\* VirtualFS.read after the get: a found value is put into the map
MemAfterGet(path) ==
  IF DbValue(path) # Null THEN MapSet(vmem, path, DbValue(path)) ELSE vmem

\* the get of a suspended open completes and the hook goes on
OpenResume ==
  /\ phase = "suspended"
  /\ regs.num = U64(2)
  /\ dbq # <<>>
  /\ Head(dbq).op = "get"
  /\ dbq' = Tail(dbq)
  /\ vmem' = MemAfterGet(Head(dbq).path)
  /\ OpenFinish(Head(dbq).path, DbValue(Head(dbq).path))
  /\ UNCHANGED <<cfgVars, brk, heapMapped, vdb, dbOpen, regs, emuVars, out,
                 wlog, closed, brkCalls, prev, runs>>
  /\ UNCHANGED auxVars

\* -- read(fd, buf, len) --
ReadFds == {U64(3), U64(4), AsUintN64Neg(1)}

\* Math.min(len, remaining) with len = Number(RDX) >= 0
ToRead(len, remaining) ==
  IF remaining < 0 THEN remaining
  ELSE IF Lt64(NumberOf(len), U64(remaining)) THEN ToNat(len)
  ELSE remaining

\* instance.mem_write_bytes(ptr, chunk)
MemWrite(mem, ptr, chunk) ==
  [i \in 1 .. Len(mem) |->
     IF i > ptr /\ i <= ptr + Len(chunk) THEN chunk[i - ptr] ELSE mem[i]]

\* BigInt(n) written to a 64-bit register
RegOfInt(n) == IF n < 0 THEN AsUintN64Neg(0 - n) ELSE U64(n)

\* read after `data = await rt.vfs.read(file.path)`
ReadFinish(k, ptr, len, data) ==
  /\ IF data = Null
       THEN /\ rax' = EIO
            /\ UNCHANGED <<fds, gmem>>
       ELSE LET toRead == ToRead(len, Len(data) - fds[k].offset) IN
            /\ IF toRead > 0
                 THEN /\ gmem' = MemWrite(gmem, ptr,
                                   SubSeq(data, fds[k].offset + 1,
                                          fds[k].offset + toRead))
                      /\ fds' = [fds EXCEPT ![k].offset = @ + toRead]
                 ELSE UNCHANGED <<fds, gmem>>
            /\ rax' = RegOfInt(toRead)
  /\ Commit

ReadSyscall(lens) ==
  /\ InHook
  /\ \E fd \in ReadFds, ptr \in {0}, len \in lens :
       /\ ptr + len <= ImageSize
       /\ regs' = Regs(U64(0), fd, U64(ptr), U64(len), U64(0))
       /\ IF ~HasFd(fd) \/ ~vfs
            THEN /\ rax' = EBADF
                 /\ Commit
                 /\ UNCHANGED <<fds, gmem, dbq>>
            ELSE LET k == FdKey(fd) IN
              IF fds[k].path \in DOMAIN vmem
                THEN /\ ReadFinish(k, ptr, U64(len), vmem[fds[k].path])
                     /\ UNCHANGED dbq
                ELSE IF ~dbOpen
                  THEN /\ Throw
                       /\ UNCHANGED <<fds, gmem, dbq, rax>>
                  ELSE /\ Len(dbq) < MaxDbq
                       /\ dbq' = Append(dbq, GetRequest(fds[k].path))
                       /\ phase' = "suspended"
                       /\ UNCHANGED <<fds, gmem, rax, exitCode, result,
                                      instrCount>>
  /\ UNCHANGED <<cfgVars, nextFd, brk, heapMapped, vmem, vdb, dbOpen,
                 heapSect, histVars, prev, runs>>
  /\ UNCHANGED auxVars

\* read with a length of 0 or of the whole buffer
SysRead ==
  /\ InHook
  /\ ReadSyscall({0, MemSize})

\* the get of a suspended read completes and the hook goes on
ReadResume ==
  /\ phase = "suspended"
  /\ regs.num = U64(0)
  /\ dbq # <<>>
  /\ Head(dbq).op = "get"
  /\ dbq' = Tail(dbq)
  /\ vmem' = MemAfterGet(Head(dbq).path)
  /\ ReadFinish(FdKey(regs.rdi), ToNat(regs.rsi), regs.rdx,
                DbValue(Head(dbq).path))
  /\ UNCHANGED <<cfgVars, nextFd, brk, heapMapped, vdb, dbOpen, regs,
                 heapSect, histVars, prev, runs>>
  /\ UNCHANGED auxVars

\* -- stat(pathname, statbuf) --
\* VirtualFS has no getSize: rt.vfs.getSize(path) throws a TypeError
SysStat ==
  /\ InHook
  /\ \E i \in {1} :
       /\ regs' = Regs(U64(4), U64(i), U64(0), U64(0), U64(0))
       /\ IF ~vfs
            THEN /\ rax' = EIO
                 /\ Commit
            ELSE /\ Throw
                 /\ UNCHANGED rax
  /\ UNCHANGED <<cfgVars, rtVars, vfsVars, emuVars, histVars, prev, runs>>
  /\ UNCHANGED auxVars

\* -- fstat(fd, statbuf) --
SysFstat ==
  /\ InHook
  /\ \E fd \in {U64(3), U64(4)} :
       /\ regs' = Regs(U64(5), fd, U64(0), U64(0), U64(0))
       /\ IF ~HasFd(fd) \/ ~vfs
            THEN /\ rax' = EBADF
                 /\ Commit
            ELSE /\ Throw
                 /\ UNCHANGED rax
  /\ UNCHANGED <<cfgVars, rtVars, vfsVars, emuVars, histVars, prev, runs>>
  /\ UNCHANGED auxVars

\* the catch of the step loop throws the annotated error: run() rejects
RunReject ==
  /\ phase = "failed"
  /\ result' = "rejected"
  /\ regs' = ZeroRegs
  /\ UNCHANGED exitCode
  /\ DropRun
  /\ UNCHANGED auxVars

Next ==
  \/ Load
  \/ AttachVfs
  \/ SetStdout
  \/ SetStderr
  \/ VfsOpen
  \/ VfsWrite
  \/ DbPut
  \/ Run
  \/ RunReject
  \/ SysRead
  \/ SysWrite
  \/ SysOpen
  \/ OpenResume
  \/ SysClose
  \/ SysStat
  \/ SysFstat
  \/ SysBrk
  \/ SysMmap
  \/ SysExit
  \/ SysUnknown

Spec == Init /\ [][Next]_vars

\* ------------------------------------------------- the file store's API
\* VirtualFS used through its public methods while no program runs: write,
\* delete and read of a user path and of a seeded path.
FsPaths == {"/home/user/a", "/etc/hostname"}

FileB == <<66>>

FsData == {FileB}

\* the map keeps what it had: the write does not reach it
\* VirtualFS.write(p, d)
FsWrite ==
  /\ phase = "idle"
  /\ \E p \in FsPaths, d \in FsData :
       /\ VfsWriteOn(p, d)
       /\ lastW' = MapSet(lastW, p, d)
  /\ rd' = NoRead
  /\ UNCHANGED <<ccVars, pfVars, extVars>>

\* VirtualFS.delete(p)
FsDelete ==
  /\ phase = "idle"
  /\ \E p \in FsPaths :
       /\ VfsDeleteOn(p)
       /\ lastW' = MapDelete(lastW, p)
  /\ rd' = NoRead
  /\ UNCHANGED <<ccVars, pfVars, extVars>>

\* VirtualFS.read(p): a hit returns the map's bytes, a miss issues the get
\* (with no database the get throws and the read returns nothing)
FsRead ==
  /\ phase = "idle"
  /\ \E p \in FsPaths :
       IF p \in DOMAIN vmem
         THEN /\ rd' = [path |-> p, data |-> vmem[p]]
              /\ rd' # rd
              /\ UNCHANGED dbq
         ELSE /\ dbOpen
              /\ Len(dbq) < MaxDbq
              /\ dbq' = Append(dbq, GetRequest(p))
              /\ UNCHANGED rd
  /\ UNCHANGED <<cfgVars, rtVars, vmem, vdb, dbOpen, phase, exitCode, result,
                 instrCount, regs, rax, emuVars, histVars, prev, runs, lastW>>
  /\ UNCHANGED <<ccVars, pfVars, extVars>>

\* the get of a read completes: a found value is put into the map and
\* returned, a missing one returns null
FsReadResume ==
  /\ phase = "idle"
  /\ dbq # <<>>
  /\ Head(dbq).op = "get"
  /\ dbq' = Tail(dbq)
  /\ vmem' = MemAfterGet(Head(dbq).path)
  /\ rd' = [path |-> Head(dbq).path, data |-> DbValue(Head(dbq).path)]
  /\ UNCHANGED <<cfgVars, rtVars, vdb, dbOpen, phase, exitCode, result,
                 instrCount, regs, rax, emuVars, histVars, prev, runs, lastW>>
  /\ UNCHANGED <<ccVars, pfVars, extVars>>

\* the oldest request is a put and fails (q.onerror): the write rejects,
\* the map keeps the bytes
DbPutFail ==
  /\ HostTurn
  /\ dbq # <<>>
  /\ Head(dbq).op = "put"
  /\ dbq' = Tail(dbq)
  /\ UNCHANGED <<cfgVars, rtVars, vmem, vdb, dbOpen, phase, exitCode, result,
                 instrCount, regs, rax, emuVars, histVars, prev, runs, auxVars>>

NextFs ==
  \/ VfsOpen
  \/ FsWrite
  \/ FsDelete
  \/ FsRead
  \/ FsReadResume
  \/ DbPut
  \/ DbPutFail
  \/ DbDelete

SpecFs == Init /\ [][NextFs]_vars

\* ------------------------------------------------------ C front end (Chibicc)
\* AST nodes as Chibicc._stmt / _expr build them (source positions left out);
\* a string literal is kept as the bytes the assembler stores for it.
\* the node's val is a number here, a byte string in Str
Num(n) == [type |-> "num", num |-> n]

Str(bytes) == [type |-> "str", bytes |-> bytes]

Var(name) == [type |-> "var", name |-> name]

Assign(name, val) == [type |-> "assign", name |-> name, val |-> val]

Binary(op, left, right) ==
  [type |-> "binary", op |-> op, left |-> left, right |-> right]

Call(name, args) == [type |-> "call", name |-> name, args |-> args]

\* els = null
NoElse == [type |-> "null"]

If(cond, then, els) ==
  [type |-> "if", cond |-> cond, then |-> then, els |-> els]

While(cond, body) == [type |-> "while", cond |-> cond, body |-> body]

Block(stmts) == [type |-> "block", stmts |-> stmts]

Return(val) == [type |-> "return", val |-> val]

Nop == [type |-> "nop"]

\* one line of assembly text: mnemonic or directive, two operands, a number
Asm(op, a, b, n) == [op |-> op, a |-> a, b |-> b, n |-> n]

Label(name, n) == Asm("label", name, "", n)

\* the string literals of a node in source order
RECURSIVE StrsOf(_)
RECURSIVE StrsOfSeq(_)
StrsOf(node) ==
  CASE node.type = "str" -> <<node.bytes>>
    [] node.type = "assign" -> StrsOf(node.val)
    [] node.type = "binary" -> StrsOf(node.left) \o StrsOf(node.right)
    [] node.type = "call" -> StrsOfSeq(node.args)
    [] node.type = "if" ->
         StrsOf(node.cond) \o StrsOf(node.then) \o StrsOf(node.els)
    [] node.type = "while" -> StrsOf(node.cond) \o StrsOf(node.body)
    [] node.type = "block" -> StrsOfSeq(node.stmts)
    [] node.type = "return" -> StrsOf(node.val)
    [] OTHER -> <<>>

StrsOfSeq(nodes) ==
  IF nodes = <<>> THEN <<>> ELSE StrsOf(Head(nodes)) \o StrsOfSeq(Tail(nodes))

\* stringMap: every literal once, in order of its first occurrence
RECURSIVE Dedup(_)
Dedup(s) ==
  IF s = <<>> THEN <<>>
  ELSE LET front == Dedup(SubSeq(s, 1, Len(s) - 1))
           last  == s[Len(s)]
       IN  IF \E i \in DOMAIN front : front[i] = last THEN front
           ELSE Append(front, last)

StringMap(nodes) == Dedup(StrsOfSeq(nodes))

\* _getStrLabel: the number N of the literal's label .L.str.N
StrLabel(smap, val) ==
  IF \E i \in DOMAIN smap : smap[i] = val
    THEN (CHOOSE i \in DOMAIN smap : smap[i] = val) - 1
    ELSE 0

\* this.locals.get(name): -8 for the first declared name, -16 for the next
LocalOffset(locals, name) ==
  0 - 8 * (CHOOSE i \in DOMAIN locals : locals[i] = name)

ArgRegs == <<"%rdi", "%rsi", "%rdx", "%rcx", "%r8", "%r9">>

\* the statement types after which no `popq %rax` is emitted
NoPopTypes == {"if", "while", "for", "block", "return", "nop"}

\* the pop the top-level loop and the block case emit after a statement
PopAfter(node) ==
  IF node.type \notin NoPopTypes THEN <<Asm("popq", "%rax", "", 0)>> ELSE <<>>

BinaryOp(op) ==
  CASE op = "+" -> <<Asm("addq", "%rdi", "%rax", 0)>>
    [] op = "-" -> <<Asm("subq", "%rdi", "%rax", 0)>>
    [] op = "*" -> <<Asm("imulq", "%rdi", "%rax", 0)>>
    [] op = "/" -> <<Asm("cqo", "", "", 0), Asm("idivq", "%rdi", "", 0)>>
    [] op = "==" -> <<Asm("cmpq", "%rdi", "%rax", 0), Asm("sete", "%al", "", 0),
                      Asm("movzbq", "%al", "%rax", 0)>>
    [] op = "!=" -> <<Asm("cmpq", "%rdi", "%rax", 0), Asm("setne", "%al", "", 0),
                      Asm("movzbq", "%al", "%rax", 0)>>
    [] op = "<" -> <<Asm("cmpq", "%rdi", "%rax", 0), Asm("setl", "%al", "", 0),
                     Asm("movzbq", "%al", "%rax", 0)>>
    [] op = "<=" -> <<Asm("cmpq", "%rdi", "%rax", 0), Asm("setle", "%al", "", 0),
                      Asm("movzbq", "%al", "%rax", 0)>>
    [] op = ">" -> <<Asm("cmpq", "%rdi", "%rax", 0), Asm("setg", "%al", "", 0),
                     Asm("movzbq", "%al", "%rax", 0)>>
    [] op = ">=" -> <<Asm("cmpq", "%rdi", "%rax", 0), Asm("setge", "%al", "", 0),
                      Asm("movzbq", "%al", "%rax", 0)>>
    [] OTHER -> <<>>

\* the pops of a call's arguments, last argument first
RECURSIVE PopArgs(_)
PopArgs(n) ==
  IF n = 0 THEN <<>>
  ELSE <<Asm("popq", ArgRegs[n], "", 0)>> \o PopArgs(n - 1)

\* Chibicc._gen: the lines emitted for a node and this.labelId afterwards
RECURSIVE Gen(_, _, _, _)
RECURSIVE GenArgs(_, _, _, _)
RECURSIVE GenBlock(_, _, _, _)
Gen(node, locals, smap, id) ==
  CASE node.type = "num" ->
         [asm |-> <<Asm("pushq", "$", "", node.num)>>, id |-> id]
    [] node.type = "str" ->
         [asm |-> <<Asm("leaq", ".L.str(%rip)", "%rax", StrLabel(smap, node.bytes)),
                    Asm("pushq", "%rax", "", 0)>>,
          id |-> id]
    [] node.type = "var" ->
         [asm |-> <<Asm("movq", "(%rbp)", "%rax", LocalOffset(locals, node.name)),
                    Asm("pushq", "%rax", "", 0)>>,
          id |-> id]
    [] node.type = "assign" ->
         LET v == Gen(node.val, locals, smap, id) IN
         [asm |-> v.asm \o
                  <<Asm("popq", "%rax", "", 0),
                    Asm("movq", "%rax", "(%rbp)", LocalOffset(locals, node.name)),
                    Asm("pushq", "%rax", "", 0)>>,
          id |-> v.id]
    [] node.type = "binary" ->
         LET l == Gen(node.left, locals, smap, id)
             r == Gen(node.right, locals, smap, l.id)
         IN  [asm |-> l.asm \o r.asm \o
                      <<Asm("popq", "%rdi", "", 0), Asm("popq", "%rax", "", 0)>> \o
                      BinaryOp(node.op) \o <<Asm("pushq", "%rax", "", 0)>>,
              id |-> r.id]
    [] node.type = "call" ->
         LET a == GenArgs(node.args, locals, smap, id) IN
         [asm |-> a.asm \o PopArgs(Len(node.args)) \o
                  (IF node.name = "printf"
                     THEN <<Asm("xorq", "%rax", "%rax", 0),
                            Asm("call", "__printf", "", 0)>>
                     ELSE <<Asm("call", node.name, "", 0)>>) \o
                  <<Asm("pushq", "%rax", "", 0)>>,
          id |-> a.id]
    [] node.type = "if" ->
         LET c == Gen(node.cond, locals, smap, id + 1)
             t == Gen(node.then, locals, smap, c.id)
             e == IF node.els = NoElse THEN [asm |-> <<>>, id |-> t.id]
                  ELSE Gen(node.els, locals, smap, t.id)
         IN  [asm |-> c.asm \o
                      <<Asm("popq", "%rax", "", 0), Asm("cmpq", "$", "%rax", 0),
                        Asm("je", ".L.else", "", id)>> \o
                      t.asm \o
                      <<Asm("jmp", ".L.end", "", id), Label(".L.else", id)>> \o
                      e.asm \o <<Label(".L.end", id)>>,
              id |-> e.id]
    [] node.type = "while" ->
         LET c == Gen(node.cond, locals, smap, id + 1)
             b == Gen(node.body, locals, smap, c.id)
         IN  [asm |-> <<Label(".L.begin", id)>> \o c.asm \o
                      <<Asm("popq", "%rax", "", 0), Asm("cmpq", "$", "%rax", 0),
                        Asm("je", ".L.end", "", id)>> \o
                      b.asm \o
                      <<Asm("jmp", ".L.begin", "", id), Label(".L.end", id)>>,
              id |-> b.id]
    [] node.type = "block" -> GenBlock(node.stmts, locals, smap, id)
    [] node.type = "return" ->
         LET v == Gen(node.val, locals, smap, id) IN
         [asm |-> v.asm \o
                  <<Asm("popq", "%rax", "", 0), Asm("jmp", ".L.exit", "", 0)>>,
          id |-> v.id]
    [] OTHER -> [asm |-> <<>>, id |-> id]

GenArgs(args, locals, smap, id) ==
  IF args = <<>> THEN [asm |-> <<>>, id |-> id]
  ELSE LET h == Gen(Head(args), locals, smap, id)
           t == GenArgs(Tail(args), locals, smap, h.id)
       IN  [asm |-> h.asm \o t.asm, id |-> t.id]

GenBlock(stmts, locals, smap, id) ==
  IF stmts = <<>> THEN [asm |-> <<>>, id |-> id]
  ELSE LET h == Gen(Head(stmts), locals, smap, id)
           t == GenBlock(Tail(stmts), locals, smap, h.id)
       IN  [asm |-> h.asm \o PopAfter(Head(stmts)) \o t.asm, id |-> t.id]

\* (this.stackOffset + 15) & ~15 with stackOffset = 8 * declared names
StackSize(locals) == ((8 * Len(locals) + 15) \div 16) * 16

\* the lines up to the first statement: .data, one line per literal, .text,
\* .global _start, _start:, the prologue and the frame allocation
Preamble(locals, smap) ==
  <<Asm(".data", "", "", 0)>> \o
  [i \in DOMAIN smap |-> Asm(".ascii", ".L.str", "", i - 1)] \o
  <<Asm(".text", "", "", 0), Asm(".global", "_start", "", 0),
    Label("_start", 0),
    Asm("pushq", "%rbp", "", 0), Asm("movq", "%rsp", "%rbp", 0)>> \o
  (IF StackSize(locals) > 0
     THEN <<Asm("subq", "$", "%rsp", StackSize(locals))>> ELSE <<>>)

\* the exit status is taken from the return value
EpilogueStatusFromRax == Asm("movq", "%rax", "%rdi", 0)

\* xorq %rdi, %rdi
EpilogueStatus == Asm("xorq", "%rdi", "%rdi", 0)

Epilogue ==
  <<Label(".L.exit", 0),
    Asm("movq", "%rbp", "%rsp", 0), Asm("popq", "%rbp", "", 0),
    Asm("movq", "$60", "%rax", 0), EpilogueStatus, Asm("syscall", "", "", 0)>>

\* _printfStub as lines: the empty line, the label, the body, ret; what the
\* body does is PrintfStub below
StubLines ==
  <<Asm("", "", "", 0), Label("__printf", 0), Asm("__printf body", "", "", 0),
    Asm("ret", "", "", 0)>>

\* currentAsmLine(): asm.split('\n').length, asm ending in a newline
CurrentAsmLine(asm) == Len(asm) + 1

\* the loop over the top-level statements: code and source map so far
RECURSIVE GenTop(_, _, _, _, _, _)
GenTop(nodes, locals, smap, id, asm, smapOut) ==
  IF nodes = <<>> THEN [asm |-> asm, sourceMap |-> smapOut]
  ELSE LET g == Gen(Head(nodes), locals, smap, id) IN
       GenTop(Tail(nodes), locals, smap, g.id,
              asm \o g.asm \o PopAfter(Head(nodes)),
              Append(smapOut, CurrentAsmLine(asm)))

\* Chibicc.compile on the parser's result: the statements and the declared
\* names in order of declaration
Compile(parsed) ==
  LET smap == StringMap(parsed.nodes)
      body == GenTop(parsed.nodes, parsed.locals, smap, 0,
                     Preamble(parsed.locals, smap), <<>>)
  IN  [assembly |-> body.asm \o Epilogue \o StubLines,
       sourceMap |-> body.sourceMap,
       strings |-> smap]

\* ----------------------------------------------------- the __printf stub
\* the byte at address p of the data section; the page is zero behind it
ByteAt(mem, p) == IF p + 1 \in DOMAIN mem THEN mem[p + 1] ELSE 0

\* divq %rbx with rbx = 10, rdx = 0: quotient and remainder of a limb tuple
RECURSIVE DivTen(_, _)
DivTen(x, rem) ==
  IF x = <<>> THEN [q |-> <<>>, r |-> rem]
  ELSE LET cur  == rem * Limb + Head(x)
           rest == DivTen(Tail(x), cur % 10)
       IN  [q |-> <<cur \div 10>> \o rest.q, r |-> rest.r]

\* negq %rax
Neg64(x) ==
  LET n == AddLow(<<Limb - 1 - x[1], Limb - 1 - x[2], Limb - 1 - x[3],
                    Limb - 1 - x[4]>>, 1)
  IN  IF Len(n) = 5 THEN <<0, 0, 0, 0>> ELSE n

\* jns is not taken: the sign bit of rax is set
SignSet(x) == x[1] >= 32768

\* addq $48, %rdx ; movb %dl, (%rcx)
DigitByte(r) == 48 + r

\* .L.pf_dloop: the digits are stored from -25(%rbp) downwards, the least
\* significant first, until the quotient is zero; the buffer then reads,
\* from the lowest address, most significant digit first
RECURSIVE PfDigits(_)
PfDigits(x) ==
  LET d == DivTen(x, 0) IN
  IF d.q = <<0, 0, 0, 0>> THEN <<DigitByte(d.r)>>
  ELSE PfDigits(d.q) \o <<DigitByte(d.r)>>

\* .L.pf_spec for %d: the sign write, then one write with the digits
PfNumber(v) ==
  IF SignSet(v) THEN <<<<45>>, PfDigits(Neg64(v))>> ELSE <<PfDigits(v)>>

\* .L.pf_loop / .L.pf_spec: the write calls on fd 1, in order, for the
\* format at address p and the argument v
RECURSIVE PrintfStub(_, _, _)
PrintfStub(mem, p, v) ==
  LET b == ByteAt(mem, p) IN
  IF b = 0 THEN <<>>
  ELSE IF b = 37
    THEN IF ByteAt(mem, p + 1) = 100
           THEN PfNumber(v) \o PrintfStub(mem, p + 2, v)
           ELSE PrintfStub(mem, p + 2, v)
    ELSE <<<<b>>>> \o PrintfStub(mem, p + 1, v)

\* the bytes of a sequence of writes
RECURSIVE Flatten(_)
Flatten(ws) == IF ws = <<>> THEN <<>> ELSE Head(ws) \o Flatten(Tail(ws))

\* ------------------------------------------- running the generated code
\* .data: the literals, each with its terminating zero byte
RECURSIVE DataMem(_)
DataMem(strings) ==
  IF strings = <<>> THEN <<>>
  ELSE Head(strings) \o <<0>> \o DataMem(Tail(strings))

\* the address of .L.str.n, relative to the start of .data
RECURSIVE StrAddr(_, _)
StrAddr(strings, n) ==
  IF n = 0 THEN 0 ELSE Len(Head(strings)) + 1 + StrAddr(Tail(strings), n - 1)

\* the line of a label
LabelLine(code, name, n) == CHOOSE i \in DOMAIN code : code[i] = Label(name, n)

\* stack slots of the frame: the saved %rbp is ccStk[ccBp], the local at
\* off(%rbp) is ccStk[ccBp - off / 8]
LocalSlot(off) == ccBp + ((0 - off) \div 8)

\* the words pushed on top of the frame
Depth(locals) == Len(ccStk) - ccBp - StackSize(locals) \div 8

Top == ccStk[Len(ccStk)]

Popped == SubSeq(ccStk, 1, Len(ccStk) - 1)

Sign(n) == IF n < 0 THEN -1 ELSE IF n > 0 THEN 1 ELSE 0

\* idivq: the quotient truncated towards zero
Quot(a, b) == Sign(a) * Sign(b) * ((Sign(a) * a) \div (Sign(b) * b))

\* idivq: the remainder, with the sign of the dividend
Rem(a, b) == a - Quot(a, b) * b

\* %al: the low byte of %rax
LowByte(x) == x % 256

\* setcc %al: the low byte of %rax is replaced, the other bytes stay
WithLowByte(x, b) == x - LowByte(x) + b

SetCc(op) ==
  CASE op = "sete" -> ccCmp = 0
    [] op = "setne" -> ccCmp # 0
    [] op = "setl" -> ccCmp < 0
    [] op = "setle" -> ccCmp <= 0
    [] op = "setg" -> ccCmp > 0
    [] op = "setge" -> ccCmp >= 0

CcCode == compiled.assembly

\* lines that are not instructions
IsDirective(line) ==
  line.op \in {"label", ".data", ".ascii", ".text", ".global", ""}

\* one instruction other than call and syscall.  idivq with a divisor of 0
\* raises the divide error before it has changed anything: the program
\* stops at the idivq.  pushq %rbp saves the 0 that %rbp holds at the entry
\* of _start, which ccBp = 0 stands for, and popq %rbp puts it back.
CcStep ==
  /\ ccStatus = "running"
  /\ LET line == CcCode[ccPc]
         op   == line.op
     IN
     /\ op \notin {"call", "syscall", "ret", "__printf body"}
     /\ op = "pushq" => Len(ccStk) < MaxStk
     /\ ccPc' = CASE op = "jmp" -> LabelLine(CcCode, line.a, line.n)
                  [] op = "je" -> IF ccCmp = 0
                                    THEN LabelLine(CcCode, line.a, line.n)
                                    ELSE ccPc + 1
                  [] op = "idivq" /\ ccRegs["%rdi"] = 0 -> ccPc
                  [] OTHER -> ccPc + 1
     /\ ccStk' = CASE op = "pushq" ->
                       Append(ccStk, IF line.a = "$" THEN line.n
                                     ELSE IF line.a = "%rbp" THEN 0
                                     ELSE ccRegs[line.a])
                   [] op = "popq" -> Popped
                   [] op = "subq" /\ line.b = "%rsp" ->
                       ccStk \o [i \in 1 .. line.n \div 8 |-> 0]
                   [] op = "movq" /\ line.b = "(%rbp)" ->
                       [ccStk EXCEPT ![LocalSlot(line.n)] = ccRegs["%rax"]]
                   [] op = "movq" /\ line.b = "%rsp" -> SubSeq(ccStk, 1, ccBp)
                   [] OTHER -> ccStk
     /\ ccBp' = IF op = "movq" /\ line.b = "%rbp" THEN Len(ccStk)
               ELSE IF op = "popq" /\ line.a = "%rbp" THEN Top
               ELSE ccBp
     /\ ccRegs' =
          CASE op = "popq" /\ line.a # "%rbp" -> [ccRegs EXCEPT ![line.a] = Top]
            [] op = "leaq" ->
                 [ccRegs EXCEPT !["%rax"] = StrAddr(compiled.strings, line.n)]
            [] op = "movq" /\ line.a = "(%rbp)" ->
                 [ccRegs EXCEPT !["%rax"] = ccStk[LocalSlot(line.n)]]
            [] op = "movq" /\ line.a = "$60" -> [ccRegs EXCEPT !["%rax"] = 60]
            [] op = "movq" /\ line.a = "%rax" /\ line.b = "%rdi" ->
                 [ccRegs EXCEPT !["%rdi"] = ccRegs["%rax"]]
            [] op = "addq" -> [ccRegs EXCEPT !["%rax"] = @ + ccRegs["%rdi"]]
            [] op = "subq" /\ line.b = "%rax" ->
                 [ccRegs EXCEPT !["%rax"] = @ - ccRegs["%rdi"]]
            [] op = "imulq" -> [ccRegs EXCEPT !["%rax"] = @ * ccRegs["%rdi"]]
            [] op = "cqo" ->
                 [ccRegs EXCEPT !["%rdx"] = IF ccRegs["%rax"] < 0 THEN -1 ELSE 0]
            [] op = "idivq" /\ ccRegs["%rdi"] # 0 ->
                 [ccRegs EXCEPT !["%rax"] = Quot(@, ccRegs["%rdi"]),
                                !["%rdx"] = Rem(ccRegs["%rax"], ccRegs["%rdi"])]
            [] op \in {"sete", "setne", "setl", "setle", "setg", "setge"} ->
                 [ccRegs EXCEPT !["%rax"] = WithLowByte(@, IF SetCc(op) THEN 1 ELSE 0)]
            [] op = "movzbq" -> [ccRegs EXCEPT !["%rax"] = LowByte(@)]
            [] op = "xorq" -> [ccRegs EXCEPT ![line.b] = 0]
            [] OTHER -> ccRegs
     /\ ccCmp' = IF op = "cmpq"
                   THEN Sign(ccRegs["%rax"] -
                             (IF line.a = "$" THEN line.n ELSE ccRegs["%rdi"]))
                   ELSE ccCmp
     /\ ccStatus' = IF op = "idivq" /\ ccRegs["%rdi"] = 0 THEN "fault"
                    ELSE ccStatus
  /\ UNCHANGED <<prog, compiled, ccOut, ccExit>>
  /\ UNCHANGED <<rtAll, fsVars, pfVars, extVars>>

\* the line of the stub's label
StubStart == LabelLine(compiled.assembly, "__printf", 0)

\* Addresses in the registers: a byte of .data is its offset from the start
\* of .data, an instruction is its line in the assembly text, and the stack
\* slot ccStk[i] is at -8 * i from %rsp at the entry of _start.
SlotAddr(i) == 0 - 8 * i

\* the lines of the stub text behind its three syscall instructions, counted
\* from the line of the label __printf
AfterSyscall == [lit |-> 20, sign |-> 38, num |-> 59]

NoWrite == [kind |-> "none", addr |-> 0, len |-> 0]

\* the last write the stub issues for the format at p, last being the last
\* one so far: a literal byte at its address in .data, or the digits of a
\* %d conversion in the frame of the stub
RECURSIVE PfLast(_, _, _, _)
PfLast(mem, p, v, last) ==
  LET b == ByteAt(mem, p) IN
  IF b = 0 THEN last
  ELSE IF b = 37
    THEN IF ByteAt(mem, p + 1) = 100
           THEN PfLast(mem, p + 2, v,
                       [kind |-> "num", addr |-> 0,
                        len |-> Len(PfDigits(IF SignSet(v) THEN Neg64(v) ELSE v))])
           ELSE PfLast(mem, p + 2, v, last)
    ELSE PfLast(mem, p + 1, v, [kind |-> "lit", addr |-> p, len |-> 1])

\* the caller's registers when the stub returns: %rax is 0; %rdi, %rsi and
\* %rdx hold the arguments of the stub's last write and %rcx what its
\* syscall instruction left there (the address of the next instruction);
\* rbp is the stub's %rbp, the digits end at -25(%rbp)
AfterStub(rs, last, rbp) ==
  IF last.kind = "none" THEN [rs EXCEPT !["%rax"] = 0]
  ELSE [rs EXCEPT !["%rax"] = 0,
                  !["%rdi"] = 1,
                  !["%rsi"] = IF last.kind = "lit" THEN last.addr
                              ELSE rbp - 24 - last.len,
                  !["%rdx"] = last.len,
                  !["%rcx"] = StubStart + AfterSyscall[last.kind]]

\* call __printf: the stub's writes reach fd 1; the call pushes the return
\* address and the stub pushes %rbp, two slots above the caller's stack
CcPrintf ==
  /\ ccStatus = "running"
  /\ CcCode[ccPc] = Asm("call", "__printf", "", 0)
  /\ Len(ccOut) < MaxCcOut
  /\ ccOut' = ccOut \o
              Flatten(PrintfStub(DataMem(compiled.strings),
                                 ccRegs["%rdi"], RegOfInt(ccRegs["%rsi"])))
  /\ ccRegs' = AfterStub(ccRegs,
                         PfLast(DataMem(compiled.strings), ccRegs["%rdi"],
                                RegOfInt(ccRegs["%rsi"]), NoWrite),
                         SlotAddr(Len(ccStk) + 2))
  /\ ccPc' = ccPc + 1
  /\ UNCHANGED <<prog, compiled, ccStk, ccBp, ccCmp, ccStatus, ccExit>>
  /\ UNCHANGED <<rtAll, fsVars, pfVars, extVars>>

\* syscall with %rax = 60: the program ends with the status in %rdi
CcExit ==
  /\ ccStatus = "running"
  /\ CcCode[ccPc].op = "syscall"
  /\ ccRegs["%rax"] = 60
  /\ ccStatus' = "exited"
  /\ ccExit' = ccRegs["%rdi"]
  /\ UNCHANGED <<prog, compiled, ccPc, ccStk, ccBp, ccRegs, ccCmp, ccOut>>
  /\ UNCHANGED <<rtAll, fsVars, pfVars, extVars>>

\* ------------------------------------------------ programs and arguments
\* x = x + 1;
Incr == Assign("x", Binary("+", Var("x"), Num(1)))

\* printf("a\n");
PrintA == Call("printf", <<Str(<<97, 10>>)>>)

\* printf("%d\n", x);
PrintD == Call("printf", <<Str(<<37, 100, 10>>), Var("x")>>)

\* statements without a sub-statement: expression statements, the
\* declaration `int x;`, return
SimpleStmts == {Incr, PrintA, PrintD, Num(1), Nop, Return(Num(5)), Return(Var("x"))}

IfConds == {Binary("<", Var("x"), Num(2)), Num(0)}

WhileConds == {Binary("<", Var("x"), Num(2))}

Blocks ==
  {Block(<<s>>) : s \in SimpleStmts} \cup
  {Block(<<s, t>>) : s \in {Incr, PrintD, Nop}, t \in SimpleStmts}

\* if / while with an unbraced or a braced sub-statement
Compounds ==
  {If(c, s, NoElse) : c \in IfConds, s \in SimpleStmts \cup Blocks} \cup
  {If(c, s, t) : c \in IfConds, s \in SimpleStmts, t \in {Incr, Nop, Block(<<Incr>>)}} \cup
  {While(c, s) : c \in WhileConds, s \in SimpleStmts \cup Blocks}

Stmts == SimpleStmts \cup Blocks \cup Compounds

\* `int x = 0;` followed by up to MaxTop further top-level statements, the
\* last of them any statement
RECURSIVE Tops(_)
Tops(n) ==
  IF n = 0 THEN {<<>>}
  ELSE Tops(n - 1) \cup
       {<<s>> \o t : s \in {PrintD, Nop}, t \in {u \in Tops(n - 1) : Len(u) = n - 1}}

Programs ==
  {[nodes |-> <<Assign("x", Num(0))>> \o t \o <<s>>, locals |-> <<"x">>] :
     t \in Tops(MaxTop - 1), s \in Stmts}

\* a compiled program is loaded: execution starts at _start
InitCc ==
  /\ InitRt
  /\ PfIdle
  /\ ExtIdle
  /\ prog \in Programs
  /\ compiled = Compile(prog)
  /\ ccPc = LabelLine(compiled.assembly, "_start", 0) + 1
  /\ ccStk = <<>>
  /\ ccBp = 0
  /\ ccRegs = [r \in RegNames |-> 0]
  /\ ccCmp = 0
  /\ ccOut = <<>>
  /\ ccStatus = "running"
  /\ ccExit = 0

NextCc == CcStep \/ CcPrintf \/ CcExit

SpecCc == InitCc /\ [][NextCc]_vars

\* movzbq (%r12), %rbx at .L.pf_loop and .L.pf_spec: the addresses read, in
\* order, for the format at address p; the last one is %r12 at .L.pf_done
RECURSIVE PfReads(_, _)
PfReads(mem, p) ==
  LET b == ByteAt(mem, p) IN
  IF b = 0 THEN <<p>>
  ELSE IF b = 37 THEN <<p, p + 1>> \o PfReads(mem, p + 2)
  ELSE <<p>> \o PfReads(mem, p + 1)

\* the frame after the prologue, as byte offsets from the new %rbp: the saved
\* %rbp at 0, then the pushed %rbx, %r12 and %r13, eight bytes each
SavedAt == [rbp |-> 0, rbx |-> -8, r12 |-> -16, r13 |-> -24]

\* leaq -25(%rbp), %rcx: the first digit byte; decq %rcx for the next
DigitTop == -25

\* subq $32, %rsp after the three pushes, then subq $8, %rsp: the sign byte
SignAt == -24 - 32 - 8

\* the offsets from %rbp of the bytes one %d conversion stores
NumberStores(v) ==
  (IF SignSet(v) THEN {SignAt} ELSE {}) \cup
  {DigitTop - i : i \in 0..(Len(PfDigits(IF SignSet(v) THEN Neg64(v) ELSE v)) - 1)}

\* the offsets from %rbp of the bytes the stub stores for the format at p
RECURSIVE PfStores(_, _, _)
PfStores(mem, p, v) ==
  LET b == ByteAt(mem, p) IN
  IF b = 0 THEN {}
  ELSE IF b = 37
    THEN IF ByteAt(mem, p + 1) = 100
           THEN NumberStores(v) \cup PfStores(mem, p + 2, v)
           ELSE PfStores(mem, p + 2, v)
    ELSE PfStores(mem, p + 1, v)

\* what popq finds in the slot of a saved register: the pushed value, or
\* -1 for a slot that a store has overwritten
Restored(entry, name, stores) ==
  IF \E a \in stores : a \in SavedAt[name]..(SavedAt[name] + 7)
  THEN -1 ELSE entry[name]

\* .L.pf_done at its ret: addq $32, %rsp; popq %r13, %r12, %rbx;
\* movq %rbp, %rsp; popq %rbp.  The prologue set %rbp to entry.rsp - 8.
PfReturn(entry, stores) ==
  [rbx |-> Restored(entry, "rbx", stores),
   r12 |-> Restored(entry, "r12", stores),
   r13 |-> Restored(entry, "r13", stores),
   rbp |-> Restored(entry, "rbp", stores),
   rsp |-> (entry.rsp - 8) + 8]

\* the caller's registers at the call: the generated code's frame, and a
\* caller that uses all of them
PfEntries ==
  {[rbx |-> 0, r12 |-> 0, r13 |-> 0, rbp |-> 4088, rsp |-> 4064],
   [rbx |-> 7, r12 |-> 8, r13 |-> 9, rbp |-> 2040, rsp |-> 2000]}

\* formats over 'a', '%' and 'd'
RECURSIVE Formats(_)
Formats(n) ==
  IF n = 0 THEN {<<>>}
  ELSE Formats(n - 1) \cup
       {Append(f, b) : f \in {g \in Formats(n - 1) : Len(g) = n - 1},
                       b \in {97, 37, 100}}

\* the format, its terminator, and the literal "b" stored behind it
PfMems == {f \o <<0, 98, 0>> : f \in Formats(MaxFmt)}

\* 0, 1, 10, 65536, 2^63 - 1, -1, -10, -2^63
PfVals ==
  {U64(0), U64(1), U64(10), <<0, 0, 1, 0>>, <<32767, 65535, 65535, 65535>>,
   AsUintN64Neg(1), AsUintN64Neg(10), <<32768, 0, 0, 0>>}

\* the generated code calls __printf with the format in %rdi and the
\* argument in %rsi; %rax holds the xorq'ed 0
InitPf ==
  /\ InitRt
  /\ CcIdle
  /\ ExtIdle
  /\ pfMem \in PfMems
  /\ pfVal \in PfVals
  /\ pfWrites = <<>>
  /\ pfRax = U64(0)
  /\ pfStatus = "called"
  /\ pfReads = <<>>
  /\ pfEntry \in PfEntries
  /\ pfRegs = pfEntry

\* __printf runs to its ret
PfRun ==
  /\ pfStatus = "called"
  /\ pfWrites' = PrintfStub(pfMem, 0, pfVal)
  /\ pfRax' = U64(0)
  /\ pfStatus' = "returned"
  /\ pfReads' = PfReads(pfMem, 0)
  /\ pfRegs' = PfReturn(pfEntry, PfStores(pfMem, 0, pfVal))
  /\ UNCHANGED <<pfMem, pfVal, pfEntry>>
  /\ UNCHANGED <<rtAll, fsVars, ccVars, extVars>>

NextPf == PfRun

SpecPf == InitPf /\ [][NextPf]_vars

\* -------------------------------------------- the orchestrator's C path
\* App.runProgram assembles only for language asm; for c it hands the engine
\* no ELF and BlinkEngine.execute answers from _demoExecute, which reads the
\* source text.  A text is the sequence of its UTF-16 code units.

\* "printf"
PrintfWord == <<112, 114, 105, 110, 116, 102>>

\* \s of a regular expression
ReSpace ==
  {9, 10, 11, 12, 13, 32, 160, 5760, 8232, 8233, 8239, 8287, 12288, 65279} \cup
  8192..8202

\* the code units . does not match
LineTerminators == {10, 13, 8232, 8233}

\* \s* from index i on: the index of the first code unit that is not a space
RECURSIVE SkipRe(_, _)
SkipRe(code, i) ==
  IF i <= Len(code) /\ code[i] \in ReSpace THEN SkipRe(code, i + 1) ELSE i

\* ((?:[^"\\]|\\.)*?)" from index i on: the index of the closing quote, 0
\* when the pattern fails.  A backslash takes the next code unit with it
\* unless that is a line terminator.
RECURSIVE BodyEnd(_, _)
BodyEnd(code, i) ==
  IF i > Len(code) THEN 0
  ELSE IF code[i] = 34 THEN i
  ELSE IF code[i] = 92
    THEN IF i + 1 <= Len(code) /\ code[i + 1] \notin LineTerminators
           THEN BodyEnd(code, i + 2) ELSE 0
  ELSE BodyEnd(code, i + 1)

\* printf\s*\(\s*" at index i: the index of the opening quote, 0 when the
\* pattern fails.  Nothing is asked of the code unit before index i.
QuoteAt(code, i) ==
  LET paren == SkipRe(code, i + 6)
      quote == SkipRe(code, paren + 1)
  IN  IF /\ i + 5 <= Len(code)
         /\ SubSeq(code, i, i + 5) = PrintfWord
         /\ paren <= Len(code) /\ code[paren] = 40
         /\ quote <= Len(code) /\ code[quote] = 34
        THEN quote ELSE 0

\* the loop over re.exec(code): m[1] of every match from index i on, each
\* search starting behind the closing quote of the match before
RECURSIVE FormatsOf(_, _)
FormatsOf(code, i) ==
  IF i > Len(code) THEN <<>>
  ELSE LET quote == QuoteAt(code, i)
           close == IF quote = 0 THEN 0 ELSE BodyEnd(code, quote + 1)
       IN  IF close = 0 THEN FormatsOf(code, i + 1)
           ELSE <<SubSeq(code, quote + 1, close - 1)>> \o FormatsOf(code, close + 1)

\* .replace(/\\n/g, '\n') and .replace(/\\t/g, '\t'): a backslash followed
\* by c becomes r
RECURSIVE Unescape(_, _, _)
Unescape(s, c, r) ==
  IF s = <<>> THEN <<>>
  ELSE IF Len(s) >= 2 /\ s[1] = 92 /\ s[2] = c
    THEN <<r>> \o Unescape(SubSeq(s, 3, Len(s)), c, r)
  ELSE <<s[1]>> \o Unescape(Tail(s), c, r)

\* [0-9;]
AnsiBytes == {48, 49, 50, 51, 52, 53, 54, 55, 56, 57, 59}

RECURSIVE SkipAnsi(_, _)
SkipAnsi(f, i) ==
  IF i <= Len(f) /\ f[i] \in AnsiBytes THEN SkipAnsi(f, i + 1) ELSE i

\* .replace(/\x1b\[[0-9;]*m/g, '') from index i on
RECURSIVE StripAnsi(_, _)
StripAnsi(f, i) ==
  IF i > Len(f) THEN <<>>
  ELSE LET k == SkipAnsi(f, i + 2) IN
       IF /\ f[i] = 27
          /\ i + 1 <= Len(f) /\ f[i + 1] = 91
          /\ k <= Len(f) /\ f[k] = 109
         THEN StripAnsi(f, k + 1)
         ELSE <<f[i]>> \o StripAnsi(f, i + 1)

\* [0-9.*]
FlagBytes == {48, 49, 50, 51, 52, 53, 54, 55, 56, 57, 46, 42}

\* [disxXfFeEgGcp]
ConvBytes == {100, 105, 115, 120, 88, 102, 70, 101, 69, 103, 71, 99, 112}

\* the index of the first byte from i on that is not in [0-9.*]
RECURSIVE SkipFlags(_, _)
SkipFlags(f, i) ==
  IF i <= Len(f) /\ f[i] \in FlagBytes THEN SkipFlags(f, i + 1) ELSE i

\* .replace(/%[0-9.*]*[disxXfFeEgGcp]/g, '?') from index i on
RECURSIVE DemoSubst(_, _)
DemoSubst(f, i) ==
  IF i > Len(f) THEN <<>>
  ELSE LET k == SkipFlags(f, i + 1) IN
       IF f[i] = 37 /\ k <= Len(f) /\ f[k] \in ConvBytes
         THEN <<63>> \o DemoSubst(f, k + 1)
         ELSE <<f[i]>> \o DemoSubst(f, i + 1)

\* what lines.push receives for one m[1]
DemoLine(body) ==
  DemoSubst(StripAnsi(Unescape(Unescape(body, 110, 10), 116, 9), 1), 1)

\* lines.join('')
RECURSIVE JoinSubst(_)
JoinSubst(fs) ==
  IF fs = <<>> THEN <<>> ELSE DemoLine(Head(fs)) \o JoinSubst(Tail(fs))

\* '[HelixCore Demo] C program executed.\nfib(10) = 55\n'
DemoBanner ==
  <<91, 72, 101, 108, 105, 120, 67, 111, 114, 101, 32, 68, 101, 109, 111, 93,
    32, 67, 32, 112, 114, 111, 103, 114, 97, 109, 32, 101, 120, 101, 99, 117,
    116, 101, 100, 46, 10, 102, 105, 98, 40, 49, 48, 41, 32, 61, 32, 53, 53,
    10>>

\* BlinkEngine._runC, for a source that holds no fibonacci loop (the earlier
\* version of the method answers such a source from a branch of its own)
RunC(code) ==
  IF FormatsOf(code, 1) = <<>> THEN DemoBanner ELSE JoinSubst(FormatsOf(code, 1))

\* stdout.split('\n')
RECURSIVE SplitLines(_, _)
SplitLines(s, cur) ==
  IF s = <<>> THEN <<cur>>
  ELSE IF Head(s) = 10 THEN <<cur>> \o SplitLines(Tail(s), <<>>)
  ELSE SplitLines(Tail(s), Append(cur, Head(s)))

\* the forEach over the lines: what reaches onStdout
RECURSIVE EmitLines(_, _)
EmitLines(lines, endsNl) ==
  IF lines = <<>> THEN <<>>
  ELSE (IF Head(lines) # <<>> \/ endsNl THEN Head(lines) \o <<10>> ELSE <<>>) \o
       EmitLines(Tail(lines), endsNl)

\* BlinkEngine._demoExecute for language c
DemoExecute(code) ==
  LET stdout == RunC(code) IN
  [exitCode |-> 0,
   stdout |-> EmitLines(SplitLines(stdout, <<>>),
                        stdout # <<>> /\ stdout[Len(stdout)] = 10)]

\* App.runProgram with language c: the editor's text goes to the engine
RunProgramC(code) == DemoExecute(code)

\* ------------------------------------------------ the text of a program
\* the source whose parse is a given tree, one top-level statement per line
NameText(name) == IF name = "printf" THEN PrintfWord ELSE <<120>>

RECURSIVE NumText(_)
NumText(n) ==
  IF n < 10 THEN <<48 + n>> ELSE NumText(n \div 10) \o <<48 + (n % 10)>>

\* a string literal as it is written: newline, tab, quote and backslash
\* escaped
RECURSIVE Escaped(_)
Escaped(bytes) ==
  IF bytes = <<>> THEN <<>>
  ELSE (CASE Head(bytes) = 10 -> <<92, 110>>
          [] Head(bytes) = 9 -> <<92, 116>>
          [] Head(bytes) = 34 -> <<92, 34>>
          [] Head(bytes) = 92 -> <<92, 92>>
          [] OTHER -> <<Head(bytes)>>) \o Escaped(Tail(bytes))

BinText(op) ==
  CASE op = "+" -> <<43>>
    [] op = "-" -> <<45>>
    [] op = "*" -> <<42>>
    [] op = "/" -> <<47>>
    [] op = "<" -> <<60>>
    [] op = ">" -> <<62>>
    [] op = "==" -> <<61, 61>>
    [] op = "!=" -> <<33, 61>>
    [] op = "<=" -> <<60, 61>>
    [] op = ">=" -> <<62, 61>>

RECURSIVE ExprText(_)
RECURSIVE ArgsText(_)
ExprText(node) ==
  CASE node.type = "num" -> NumText(node.num)
    [] node.type = "str" -> <<34>> \o Escaped(node.bytes) \o <<34>>
    [] node.type = "var" -> NameText(node.name)
    [] node.type = "assign" ->
         NameText(node.name) \o <<32, 61, 32>> \o ExprText(node.val)
    [] node.type = "binary" ->
         ExprText(node.left) \o <<32>> \o BinText(node.op) \o <<32>> \o
         ExprText(node.right)
    [] node.type = "call" ->
         NameText(node.name) \o <<40>> \o ArgsText(node.args) \o <<41>>

ArgsText(args) ==
  IF args = <<>> THEN <<>>
  ELSE IF Len(args) = 1 THEN ExprText(args[1])
  ELSE ExprText(args[1]) \o <<44, 32>> \o ArgsText(Tail(args))

RECURSIVE StmtText(_)
RECURSIVE StmtsText(_)
StmtText(node) ==
  CASE node.type = "nop" -> <<105, 110, 116, 32, 120, 59>>
    [] node.type = "return" ->
         <<114, 101, 116, 117, 114, 110, 32>> \o ExprText(node.val) \o <<59>>
    [] node.type = "block" -> <<123>> \o StmtsText(node.stmts) \o <<32, 125>>
    [] node.type = "while" ->
         <<119, 104, 105, 108, 101, 32, 40>> \o ExprText(node.cond) \o
         <<41, 32>> \o StmtText(node.body)
    [] node.type = "if" ->
         <<105, 102, 32, 40>> \o ExprText(node.cond) \o <<41, 32>> \o
         StmtText(node.then) \o
         (IF node.els = NoElse THEN <<>>
          ELSE <<32, 101, 108, 115, 101, 32>> \o StmtText(node.els))
    [] OTHER -> ExprText(node) \o <<59>>

StmtsText(nodes) ==
  IF nodes = <<>> THEN <<>>
  ELSE <<32>> \o StmtText(Head(nodes)) \o StmtsText(Tail(nodes))

RECURSIVE LinesText(_)
LinesText(nodes) ==
  IF nodes = <<>> THEN <<>>
  ELSE StmtText(Head(nodes)) \o <<10>> \o LinesText(Tail(nodes))

\* the first statement of a program is the declaration `int x = 0;`
SourceOf(parsed) == <<105, 110, 116, 32>> \o LinesText(parsed.nodes)

\* ------------------------------------------- the step loop's catch block
\* AxRuntime.run(elfBytes, sourceMap = []): when ax.step() throws, the catch
\* block reads RIP, looks the fault up in sourceMap and throws the enhanced
\* error; an exception of the block itself leaves run() in its place.

MaxSm   == 2      \* records of a source map keyed by address

BASE_VA == 4194304
HEADER_SZ == 120
TextVA == BASE_VA + HEADER_SZ

\* the records Chibicc.compile pushes, one per top-level statement, for a
\* source with one statement per line, each at the start of its line: the
\* tokenizer counts lines from 1 and columns from 0
SourceMapOf(parsed) ==
  LET sm == Compile(parsed).sourceMap
  IN  [i \in 1..Len(sm) |-> [asmLine |-> sm[i], srcLine |-> i, srcCol |-> 0]]

FrontEndMaps == {SourceMapOf(p) : p \in Programs}

\* records of the shape the catch block reads
VaRecords == {[va |-> TextVA + a, line |-> l, col |-> 1] : a \in 0..MaxSm, l \in 1..2}

RECURSIVE VaMaps(_)
VaMaps(n) ==
  IF n = 0 THEN {<<>>}
  ELSE VaMaps(n - 1) \cup
       {Append(m, r) : m \in {k \in VaMaps(n - 1) : Len(k) = n - 1}, r \in VaRecords}

\* BigInt(entry.va) throws a TypeError for an entry without va
BigIntThrows(entry) == "va" \notin DOMAIN entry

\* the for loop over sourceMap from entry i on, bestMatch being entry best
\* (0: null): the index of the final bestMatch, or -1 when BigInt throws
RECURSIVE BestMatch(_, _, _, _)
BestMatch(sourceMap, i, ripNum, best) ==
  IF i > Len(sourceMap) THEN best
  ELSE IF BigIntThrows(sourceMap[i]) THEN -1
  ELSE LET entryVA == sourceMap[i].va
       IN  IF entryVA <= ripNum /\ (best = 0 \/ entryVA > sourceMap[best].va)
           THEN BestMatch(sourceMap, i + 1, ripNum, i)
           ELSE BestMatch(sourceMap, i + 1, ripNum, best)

\* what the catch block throws: the enhanced Error, with the line and column
\* it appended to debugMsg (0, 0: nothing appended), or the TypeError
CatchBlock(sourceMap, ripVal) ==
  IF Len(sourceMap) = 0 THEN [kind |-> "Error", line |-> 0, col |-> 0]
  ELSE LET b == BestMatch(sourceMap, 1, ripVal, 0)
       IN  IF b = -1 THEN [kind |-> "TypeError", line |-> 0, col |-> 0]
           ELSE IF b = 0 THEN [kind |-> "Error", line |-> 0, col |-> 0]
           ELSE [kind |-> "Error", line |-> sourceMap[b].line, col |-> sourceMap[b].col]

\* fault addresses: 0 (RIP unreadable), below, inside and past the records
SmRips == {0} \cup ((TextVA - 1)..(TextVA + MaxSm + 1))

\* ax.step() has thrown during a run that was given smMap
InitSm ==
  /\ InitRt
  /\ CcIdle
  /\ PfIdle
  /\ ElfIdle
  /\ GuestShort
  /\ StIdle
  /\ ExIdle
  /\ AppIdle
  /\ smMap \in FrontEndMaps \cup VaMaps(MaxSm)
  /\ smRip \in SmRips
  /\ smErr = NoError
  /\ smStatus = "faulted"

\* the catch block runs and run() rejects
StepCatch ==
  /\ smStatus = "faulted"
  /\ smErr' = CatchBlock(smMap, smRip)
  /\ smStatus' = "rejected"
  /\ UNCHANGED <<smMap, smRip>>
  /\ UNCHANGED <<rtAll, fsVars, ccVars, pfVars, elfVars, guestLen, stVars, exTree, appVars>>

NextSm == StepCatch

SpecSm == InitSm /\ [][NextSm]_vars

\* ------------------------------------------------------ the ELF builder
\* Compiler.assembleGas(source): @defasm/core assembles the source into an
\* AssemblyState; without assembler errors _buildElf(state) lays out the
\* sections, patches the relocations and writes the image.  The model takes
\* the AssemblyState as its input: the section lengths, the address of the
\* statement defining _start (-1: no such symbol) and the relocations of
\* the statements.

MaxSec == 12     \* bytes of a section

\* a JS Number n as <<h, l>> with n = h * 65536 + l and 0 <= l < 65536
W(n) == <<n \div 65536, n % 65536>>
WAdd(a, b) == <<a[1] + b[1] + (a[2] + b[2]) \div 65536, (a[2] + b[2]) % 65536>>
WNeg(a) == IF a[2] = 0 THEN <<0 - a[1], 0>> ELSE <<0 - a[1] - 1, 65536 - a[2]>>
WSub(a, b) == WAdd(a, WNeg(b))

\* little-endian bytes as DataView.setUint16 / setInt32 / setBigInt64 store them
LE16(n) == <<n % 256, (n \div 256) % 256>>
LE32(w) == LE16(w[2]) \o LE16(w[1] % 65536)
LE64(w) == LE32(w) \o LE16((w[1] \div 65536) % 65536)
                   \o LE16(IF w[1] < 0 THEN 65535 ELSE 0)

\* bytes bs stored at byte offset at
Put(bytes, at, bs) ==
  [i \in DOMAIN bytes |->
     IF i > at /\ i <= at + Len(bs) THEN bs[i - at] ELSE bytes[i]]

Zeros(n) == [i \in 1..n |-> 0]

SecNames == {".text", ".data", ".bss"}

\* secVA[name]
SecVA(st, name) ==
  CASE name = ".text" -> TextVA
    [] name = ".data" -> TextVA + st.textLen
    [] name = ".bss"  -> TextVA + st.textLen + st.dataLen

\* reloc.value.addend as the builder takes it to be encoded by the
\* assembler: offset of the symbol in its section, plus the constant of
\* the operand, minus the address of the referring statement
DefasmAddend(r) == WSub(WAdd(W(r.symOff), r.addend), W(r.address))

\* the value computed for a relocation
Patch(st, r) ==
  LET patchSz == r.size \div 8
      addend  == DefasmAddend(r)
  IN  IF r.pcRelative
      THEN WSub(WAdd(addend, W(SecVA(st, r.tgt) - SecVA(st, r.src))),
                W(r.offset + patchSz))
      ELSE WAdd(WAdd(W(SecVA(st, r.tgt)), addend), W(r.address))

\* state.iterate skips a statement outside .text and .data, and the loop
\* over its relocations skips a target outside the three sections
Patched(st, r) == r.src \in {".text", ".data"} /\ r.tgt \in SecNames

PatchAt(r) == r.address + r.offset

\* the section's bytes after the relocations from the i-th on
RECURSIVE ApplyRelocs(_, _, _, _)
ApplyRelocs(st, name, bytes, i) ==
  IF i > Len(st.relocations) THEN bytes
  ELSE LET r == st.relocations[i]
           b == IF r.src = name /\ Patched(st, r)
                THEN IF r.size = 32 THEN Put(bytes, PatchAt(r), LE32(Patch(st, r)))
                     ELSE IF r.size = 64 THEN Put(bytes, PatchAt(r), LE64(Patch(st, r)))
                     ELSE bytes
                ELSE bytes
       IN  ApplyRelocs(st, name, b, i + 1)

StartOffsetDropped(st) == 0
\* startSym?.statement?.address ?? 0
StartOffset(st) == IF st.start = -1 THEN 0 ELSE st.start

EntryVA(st) == TextVA + StartOffset(st)

\* the 64-byte ELF header and the PT_LOAD program header
Header(st) ==
  LET fileSize == HEADER_SZ + st.textLen + st.dataLen
      memSize  == fileSize + st.bssLen
      h0  == Put(Zeros(HEADER_SZ), 0, <<127, 69, 76, 70, 2, 1, 1, 0>>)
      h1  == Put(h0, 16, LE16(2) \o LE16(62) \o LE32(W(1)))
      h2  == Put(h1, 24, LE64(W(EntryVA(st))) \o LE64(W(64)) \o LE64(W(0)))
      h3  == Put(h2, 48, LE32(W(0)) \o LE16(64) \o LE16(56) \o LE16(1)
                           \o LE16(64) \o LE16(0) \o LE16(0))
      h4  == Put(h3, 64, LE32(W(1)) \o LE32(W(7)) \o LE64(W(0)))
      h5  == Put(h4, 80, LE64(W(BASE_VA)) \o LE64(W(BASE_VA)))
  IN  Put(h5, 96, LE64(W(fileSize)) \o LE64(W(memSize)) \o LE64(W(4096)))

\* _buildElf: the image, or the error thrown for an empty .text
BuildElf(st) ==
  IF st.textLen = 0 THEN [status |-> "error", bytes |-> <<>>]
  ELSE [status |-> "image",
        bytes  |-> Header(st)
                   \o ApplyRelocs(st, ".text", [i \in 1..st.textLen |-> 144], 1)
                   \o ApplyRelocs(st, ".data", Zeros(st.dataLen), 1)]

\* operand constants: 0, 4, 2^31 - 1 and -2^31
Addends == {W(0), W(4), <<32767, 65535>>, <<-32768, 0>>}

Relocs ==
  [src : SecNames, address : {0, 2}, offset : {1}, size : {32, 64},
   pcRelative : BOOLEAN, tgt : SecNames \cup {"*ABS*"}, symOff : {3},
   addend : Addends]

SecLen(st, name) ==
  CASE name = ".text" -> st.textLen
    [] name = ".data" -> st.dataLen
    [] OTHER -> st.bssLen

\* the assembler leaves room for the value inside the statement
SiteInSection(st, r) == PatchAt(r) + r.size \div 8 <= SecLen(st, r.src)

AsmStates ==
  {st \in [textLen : {0, 1, MaxSec}, dataLen : {0, MaxSec}, bssLen : {MaxSec},
           start : -1..MaxSec, relocations : {<<>>} \cup {<<r>> : r \in Relocs}] :
     /\ st.start <= st.textLen
     /\ st.start \in {-1, 0, 1, st.textLen}
     /\ \A i \in DOMAIN st.relocations : SiteInSection(st, st.relocations[i])}

\* the assembler has returned without errors
InitElf ==
  /\ InitRt
  /\ CcIdle
  /\ PfIdle
  /\ SmIdle
  /\ GuestShort
  /\ StIdle
  /\ ExIdle
  /\ AppIdle
  /\ asmSt \in AsmStates
  /\ elf = NoElf

\* _buildElf returns or throws
BuildElfDone ==
  /\ elf.status = "none"
  /\ elf' = BuildElf(asmSt)
  /\ UNCHANGED asmSt
  /\ UNCHANGED <<rtAll, fsVars, ccVars, pfVars, smVars, guestLen, stVars, exTree, appVars>>

NextElf == BuildElfDone

SpecElf == InitElf /\ [][NextElf]_vars

\* ------------------------------------------------- reads on open files
\* A guest that opens files and reads them while the page stores uploads:
\* the runtime operations of Spec that concern open and read, with guest
\* programs of one more syscall and reads of nearly the whole stored file;
\* the upload stores a shorter file under the same name, and the host may
\* delete the stored file, so that a read has to wait for the database.

\* read with a length of all of the stored file but its last byte
SysReadLong ==
  /\ InHook
  /\ ReadSyscall({ImageSize - 1})

\* the host calls VirtualFS.delete on the stored file
VfsDelete ==
  /\ \E p \in HostPaths : VfsDeleteOn(p)
  /\ vmem' # vmem \/ dbq' # dbq
  /\ UNCHANGED auxVars

\* the user uploads a shorter file of the same name
VfsReplace ==
  /\ \E p \in HostPaths : HandleElfUpload(p, ShortElf)
  /\ vmem' # vmem
  /\ UNCHANGED auxVars

InitRd ==
  /\ InitRt
  /\ CcIdle
  /\ PfIdle
  /\ SmIdle
  /\ ElfIdle
  /\ StIdle
  /\ ExIdle
  /\ AppIdle
  /\ guestLen = MaxInstr + 1

NextRd ==
  \/ Load
  \/ AttachVfs
  \/ VfsOpen
  \/ VfsReplace
  \/ VfsDelete
  \/ DbPut
  \/ DbDelete
  \/ Run
  \/ SysOpen
  \/ OpenResume
  \/ SysReadLong
  \/ ReadResume

SpecRd == InitRd /\ [][NextRd]_vars

\* ----------------------------------------- string literals in the source
\* Chibicc.compile(source) collects the string literals with a scan of the
\* raw text; the tokenizer finds the string tokens the parser turns into
\* str nodes, and the code generator looks each token up in the scan's map.
\* Sources are sequences of character codes.

MaxPieces == 4    \* pieces a source text is made of

\* the first index from j on that holds the closing quote of
\* "([^"\\]*(?:\\.[^"\\]*)*)" (0: the pattern does not match)
RECURSIVE LiteralEnd(_, _)
LiteralEnd(src, j) ==
  IF j > Len(src) THEN 0
  ELSE IF src[j] = 34 THEN j
  ELSE IF src[j] = 92
    THEN IF j + 1 <= Len(src) /\ src[j + 1] \notin LineTerminators
         THEN LiteralEnd(src, j + 2) ELSE 0
  ELSE LiteralEnd(src, j + 1)

\* stringRegex.exec(source) from index i on: the matches in order
RECURSIVE ScanStrings(_, _)
ScanStrings(src, i) ==
  IF i > Len(src) THEN <<>>
  ELSE IF src[i] = 34 /\ LiteralEnd(src, i + 1) # 0
    THEN <<SubSeq(src, i, LiteralEnd(src, i + 1))>>
         \o ScanStrings(src, LiteralEnd(src, i + 1) + 1)
  ELSE ScanStrings(src, i + 1)

\* \s
IsSpace(c) == c \in ReSpace
IsDigit(c) == c \in 48..57
IsAlpha(c) == c \in (65..90) \cup (97..122) \cup {95}

\* the first index from j on whose character is not in the class
RECURSIVE SkipSpace(_, _)
SkipSpace(src, j) ==
  IF j <= Len(src) /\ IsSpace(src[j]) THEN SkipSpace(src, j + 1) ELSE j
RECURSIVE SkipWord(_, _)
SkipWord(src, j) ==
  IF j <= Len(src) /\ (IsAlpha(src[j]) \/ IsDigit(src[j]))
  THEN SkipWord(src, j + 1) ELSE j
RECURSIVE SkipDigits(_, _)
SkipDigits(src, j) ==
  IF j <= Len(src) /\ IsDigit(src[j]) THEN SkipDigits(src, j + 1) ELSE j
\* .* : up to the next line terminator
RECURSIVE SkipLine(_, _)
SkipLine(src, j) ==
  IF j <= Len(src) /\ src[j] \notin LineTerminators THEN SkipLine(src, j + 1) ELSE j

\* the index of the '/' closing a block comment whose body starts at j (0: none)
RECURSIVE CommentEnd(_, _)
CommentEnd(src, j) ==
  IF j + 1 > Len(src) THEN 0
  ELSE IF src[j] = 42 /\ src[j + 1] = 47 THEN j + 1
  ELSE CommentEnd(src, j + 1)

\* the index of the quote closing ".*?" whose body starts at j (0: none on the line)
RECURSIVE QuoteEnd(_, _)
QuoteEnd(src, j) ==
  IF j > Len(src) \/ src[j] \in LineTerminators THEN 0
  ELSE IF src[j] = 34 THEN j
  ELSE QuoteEnd(src, j + 1)

\* ==  !=  <=  >=  &&  ||
Punct2 == {<<61, 61>>, <<33, 61>>, <<60, 61>>, <<62, 61>>, <<38, 38>>, <<124, 124>>}
\* { } ( ) [ ] , ; = + - * / & ! % < > ^ | ~ . ? :
Punct1 == {123, 125, 40, 41, 91, 93, 44, 59, 61, 43, 45, 42, 47, 38, 33, 37,
           60, 62, 94, 124, 126, 46, 63, 58}

Token(type, src, from, to) == [type |-> type, text |-> SubSeq(src, from, to)]

\* _tokenize: the tokens regex.exec finds from index i on; a character no
\* alternative matches is passed over
RECURSIVE Tokenize(_, _)
Tokenize(src, i) ==
  LET t == SkipSpace(src, i) IN
  IF t > Len(src) THEN <<>>
  ELSE
    LET c == src[t]
        d == IF t < Len(src) THEN src[t + 1] ELSE 0
    IN  IF c = 47 /\ d = 47 THEN Tokenize(src, SkipLine(src, t + 2))
        ELSE IF c = 47 /\ d = 42 /\ CommentEnd(src, t + 2) # 0
          THEN Tokenize(src, CommentEnd(src, t + 2) + 1)
        ELSE IF IsAlpha(c)
          THEN <<Token("ident", src, t, SkipWord(src, t) - 1)>>
               \o Tokenize(src, SkipWord(src, t))
        ELSE IF IsDigit(c)
          THEN <<Token("num", src, t, SkipDigits(src, t) - 1)>>
               \o Tokenize(src, SkipDigits(src, t))
        ELSE IF c = 34 /\ QuoteEnd(src, t + 1) # 0
          THEN <<Token("str", src, t, QuoteEnd(src, t + 1))>>
               \o Tokenize(src, QuoteEnd(src, t + 1) + 1)
        ELSE IF <<c, d>> \in Punct2
          THEN <<Token("punct", src, t, t + 1)>> \o Tokenize(src, t + 2)
        ELSE IF c \in Punct1
          THEN <<Token("punct", src, t, t)>> \o Tokenize(src, t + 1)
        ELSE Tokenize(src, t + 1)

IsPrimary(tok) == tok.type \in {"num", "str"}
IsMulOp(tok) == tok.type = "punct" /\ tok.text \in {<<42>>, <<47>>}

\* the parser on tokens that are numbers, strings, '*', '/' and ';': the
\* top-level statements are expressions  primary (('*' | '/') primary)* ';'
\* and anything else throws; want is what the parser consumes next
RECURSIVE Parses(_, _, _)
Parses(tokens, i, want) ==
  IF i > Len(tokens) THEN want = "stmt"
  ELSE CASE want \in {"stmt", "primary"} ->
              IsPrimary(tokens[i]) /\ Parses(tokens, i + 1, "op")
         [] want = "op" ->
              \/ IsMulOp(tokens[i]) /\ Parses(tokens, i + 1, "primary")
              \/ tokens[i].text = <<59>> /\ tokens[i].type = "punct"
                 /\ Parses(tokens, i + 1, "stmt")

\* the str nodes of the parsed program, in the order code is generated
RECURSIVE StrTokens(_)
StrTokens(tokens) ==
  IF tokens = <<>> THEN <<>>
  ELSE (IF Head(tokens).type = "str" THEN <<Head(tokens).text>> ELSE <<>>)
       \o StrTokens(Tail(tokens))

\* compile(source): the raw literals of the .data entries .L.str.0, .L.str.1,
\* ... and, for every str node, the number of the label its leaq refers to
CompileText(src) ==
  LET smap   == Dedup(ScanStrings(src, 1))
      tokens == Tokenize(src, 1)
      strs   == StrTokens(tokens)
  IN  IF ~Parses(tokens, 1, "stmt")
      THEN [status |-> "rejected", data |-> <<>>, strs |-> <<>>, labels |-> <<>>]
      ELSE [status |-> "compiled", data |-> smap, strs |-> strs,
            labels |-> [i \in DOMAIN strs |-> StrLabel(smap, strs[i])]]

\* "1"  "2"  "\""  ;  /*"*/  a line comment holding a quote
Pieces ==
  {<<34, 49, 34>>, <<34, 50, 34>>, <<34, 92, 34, 34>>, <<59>>,
   <<47, 42, 34, 42, 47>>, <<47, 47, 34, 10>>}

RECURSIVE Sources(_)
Sources(n) ==
  IF n = 0 THEN {<<>>}
  ELSE Sources(n - 1) \cup {s \o p : s \in Sources(n - 1), p \in Pieces}

InitSt ==
  /\ InitRt
  /\ CcIdle
  /\ PfIdle
  /\ SmIdle
  /\ ElfIdle
  /\ GuestShort
  /\ ExIdle
  /\ AppIdle
  /\ stSrc \in Sources(MaxPieces)
  /\ stOut = NoText

CompileSource ==
  /\ stOut.status = "none"
  /\ stOut' = CompileText(stSrc)
  /\ UNCHANGED stSrc
  /\ UNCHANGED <<rtAll, fsVars, ccVars, pfVars, smVars, elfVars, guestLen, exTree, appVars>>

NextSt == CompileSource

SpecSt == InitSt /\ [][NextSt]_vars

\* ------------------------------------------------------ expressions
\* The parser on the tokens of `int x = 7; <expression>;` and the generated
\* code on the machine above.  String literals and calls do not occur in
\* the expressions explored; the parser model throws for them.

\* the result of a parsing function: the node and the position behind it
Parsed(node, pos) == [ok |-> TRUE, node |-> node, pos |-> pos]
Thrown == [ok |-> FALSE, node |-> Nop, pos |-> 0]

\* _match(val) and _expect(val) without their side effect on this.pos
Match(tokens, pos, text) ==
  pos <= Len(tokens) /\ tokens[pos].type # "num" /\ tokens[pos].text = text

\* parseInt of a run of digits
RECURSIVE ParseInt(_)
ParseInt(digits) ==
  IF digits = <<>> THEN 0
  ELSE 10 * ParseInt(SubSeq(digits, 1, Len(digits) - 1)) + (digits[Len(digits)] - 48)

\* the operators of the left-associative levels, in the order _match tries them
LevelOps(level) ==
  CASE level = "equality" ->
         <<[op |-> "==", text |-> <<61, 61>>], [op |-> "!=", text |-> <<33, 61>>]>>
    [] level = "relational" ->
         <<[op |-> "<", text |-> <<60>>], [op |-> ">", text |-> <<62>>],
           [op |-> "<=", text |-> <<60, 61>>], [op |-> ">=", text |-> <<62, 61>>]>>
    [] level = "add" ->
         <<[op |-> "+", text |-> <<43>>], [op |-> "-", text |-> <<45>>]>>
    [] level = "mul" ->
         <<[op |-> "*", text |-> <<42>>], [op |-> "/", text |-> <<47>>]>>

\* the method a level calls for its operands
Operand(level) ==
  CASE level = "equality" -> "relational"
    [] level = "relational" -> "add"
    [] level = "add" -> "mul"
    [] level = "mul" -> "unary"

\* the first operator of ops that _match finds at pos, 0 when none does
MatchOp(tokens, pos, ops) ==
  IF \E o \in DOMAIN ops : Match(tokens, pos, ops[o].text)
  THEN CHOOSE i \in DOMAIN ops :
         /\ Match(tokens, pos, ops[i].text)
         /\ \A j \in 1..(i - 1) : ~Match(tokens, pos, ops[j].text)
  ELSE 0

UnaryMinusFlipped(operand) == Binary("-", operand, Num(0))
\* the node _unary builds for -operand
UnaryMinus(operand) == Binary("-", Num(0), operand)

RECURSIVE ParseLevel(_, _, _)
RECURSIVE LevelLoop(_, _, _)

\* the for (;;) loop of _equality, _relational, _add and _mul: left is the
\* node built so far, every further operand is folded in from the left
LevelLoop(tokens, left, level) ==
  IF ~left.ok THEN Thrown
  ELSE LET o == MatchOp(tokens, left.pos, LevelOps(level)) IN
    IF o = 0 THEN left
    ELSE LET r == ParseLevel(tokens, left.pos + 1, Operand(level))
         IN  IF r.ok
             THEN LevelLoop(tokens,
                            Parsed(Binary(LevelOps(level)[o].op, left.node, r.node), r.pos),
                            level)
             ELSE Thrown

\* the recursive-descent methods _assign, _equality, _relational, _add,
\* _mul, _unary and _primary, selected by level
ParseLevel(tokens, pos, level) ==
  CASE level = "assign" ->
         LET l == ParseLevel(tokens, pos, "equality") IN
         IF ~l.ok THEN Thrown
         ELSE IF Match(tokens, l.pos, <<61>>)
           THEN IF l.node.type # "var" THEN Thrown
                ELSE LET r == ParseLevel(tokens, l.pos + 1, "assign")
                     IN  IF r.ok THEN Parsed(Assign(l.node.name, r.node), r.pos)
                         ELSE Thrown
         ELSE l
    [] level \in {"equality", "relational", "add", "mul"} ->
         LevelLoop(tokens, ParseLevel(tokens, pos, Operand(level)), level)
    [] level = "unary" ->
         IF Match(tokens, pos, <<43>>) THEN ParseLevel(tokens, pos + 1, "primary")
         ELSE IF Match(tokens, pos, <<45>>)
           THEN LET r == ParseLevel(tokens, pos + 1, "primary")
                IN  IF r.ok THEN Parsed(UnaryMinus(r.node), r.pos) ELSE Thrown
         ELSE ParseLevel(tokens, pos, "primary")
    [] level = "primary" ->
         IF pos > Len(tokens) THEN Thrown
         ELSE LET t == tokens[pos] IN
           IF t.type = "punct" /\ t.text = <<40>>
             THEN LET e == ParseLevel(tokens, pos + 1, "assign")
                  IN  IF e.ok /\ Match(tokens, e.pos, <<41>>)
                      THEN Parsed(e.node, e.pos + 1) ELSE Thrown
           ELSE IF t.type = "num" THEN Parsed(Num(ParseInt(t.text)), pos + 1)
           ELSE IF t.type = "ident" /\ ~Match(tokens, pos + 1, <<40>>)
             THEN Parsed(Var(t.text), pos + 1)
           ELSE Thrown

\* _expr
Expr(tokens, pos) == ParseLevel(tokens, pos, "assign")

\* _stmt: the declaration `int name [= expr];` and the expression statement
Stmt(tokens, pos) ==
  IF Match(tokens, pos, <<105, 110, 116>>)
  THEN IF pos + 1 > Len(tokens) \/ tokens[pos + 1].type # "ident" THEN Thrown
       ELSE IF Match(tokens, pos + 2, <<61>>)
         THEN LET v == Expr(tokens, pos + 3)
              IN  IF v.ok /\ Match(tokens, v.pos, <<59>>)
                  THEN Parsed(Assign(tokens[pos + 1].text, v.node), v.pos + 1)
                  ELSE Thrown
       ELSE IF Match(tokens, pos + 2, <<59>>) THEN Parsed(Nop, pos + 3)
       ELSE Thrown
  ELSE LET e == Expr(tokens, pos)
       IN  IF e.ok /\ Match(tokens, e.pos, <<59>>)
           THEN Parsed(e.node, e.pos + 1) ELSE Thrown

\* the names declared by the tokens, in order of declaration
RECURSIVE Declared(_, _)
Declared(tokens, pos) ==
  IF pos + 1 > Len(tokens) THEN <<>>
  ELSE IF Match(tokens, pos, <<105, 110, 116>>) /\ tokens[pos + 1].type = "ident"
    THEN Dedup(<<tokens[pos + 1].text>> \o Declared(tokens, pos + 1))
  ELSE Declared(tokens, pos + 1)

\* the loop of compile() over _stmt: the nodes, or <<>> once a statement throws
RECURSIVE ParseStmts(_, _)
ParseStmts(tokens, pos) ==
  IF pos > Len(tokens) THEN [ok |-> TRUE, nodes |-> <<>>]
  ELSE LET s == Stmt(tokens, pos) IN
       IF ~s.ok THEN [ok |-> FALSE, nodes |-> <<>>]
       ELSE LET rest == ParseStmts(tokens, s.pos)
            IN  [ok |-> rest.ok, nodes |-> <<s.node>> \o rest.nodes]

\* what the parser hands compile(): the nodes and the declared names
ParseProgram(src) ==
  LET tokens == Tokenize(src, 1)
      parsed == ParseStmts(tokens, 1)
  IN  [ok |-> parsed.ok, nodes |-> parsed.nodes, locals |-> Declared(tokens, 1)]

\* reference expressions over the literals 2 and 5 and the variable x
Lit(n) == [k |-> "lit", n |-> n]
VarX == [k |-> "var"]
Bin(op, l, r) == [k |-> "bin", op |-> op, l |-> l, r |-> r]
Neg(e) == [k |-> "neg", e |-> e]
Asg(e) == [k |-> "asg", e |-> e]
NoTree == [k |-> "none"]

BinOps == {"+", "-", "*", "/", "<", "<=", ">", ">=", "==", "!="}

RefLeaves == {Lit(2), Lit(5), VarX}

\* operands of the larger expressions
RefOperands ==
  RefLeaves \cup
  {Bin(o, VarX, Lit(2)) : o \in {"-", "/", "<", "=="}} \cup
  {Bin(o, Lit(2), VarX) : o \in {"-", "/", "<", "=="}} \cup
  {Neg(VarX), Asg(Lit(2))}

RefExprs ==
  RefLeaves \cup
  {Bin(o, a, b) : o \in BinOps, a \in RefLeaves, b \in RefLeaves} \cup
  {Bin(o, a, b) : o \in BinOps, a \in RefOperands, b \in RefOperands} \cup
  {Neg(a) : a \in RefOperands} \cup {Asg(a) : a \in RefOperands}

\* C precedence: assignment 1, equality 2, relational 3, additive 4,
\* multiplicative 5, unary 6, primary 7
Level(t) ==
  CASE t.k \in {"lit", "var"} -> 7
    [] t.k = "neg" -> 6
    [] t.k = "asg" -> 1
    [] t.k = "bin" /\ t.op \in {"*", "/"} -> 5
    [] t.k = "bin" /\ t.op \in {"+", "-"} -> 4
    [] t.k = "bin" /\ t.op \in {"<", "<=", ">", ">="} -> 3
    [] t.k = "bin" /\ t.op \in {"==", "!="} -> 2

OpText(op) ==
  CASE op = "+" -> <<43>> [] op = "-" -> <<45>> [] op = "*" -> <<42>>
    [] op = "/" -> <<47>> [] op = "<" -> <<60>> [] op = "<=" -> <<60, 61>>
    [] op = ">" -> <<62>> [] op = ">=" -> <<62, 61>> [] op = "==" -> <<61, 61>>
    [] op = "!=" -> <<33, 61>>

\* the C text of a reference expression, with parentheses only where the
\* operand binds less tightly than its place requires (min)
RECURSIVE Render(_)
RECURSIVE Wrap(_, _)
Render(t) ==
  CASE t.k = "lit" -> <<48 + t.n>>
    [] t.k = "var" -> <<120>>
    [] t.k = "neg" -> <<45>> \o Wrap(t.e, 7)
    [] t.k = "asg" -> <<120, 32, 61, 32>> \o Wrap(t.e, 1)
    [] t.k = "bin" ->
         Wrap(t.l, Level(t)) \o <<32>> \o OpText(t.op) \o <<32>> \o Wrap(t.r, Level(t) + 1)
Wrap(t, min) ==
  IF Level(t) < min THEN <<40>> \o Render(t) \o <<41>> ELSE Render(t)

Abs(n) == IF n < 0 THEN 0 - n ELSE n

\* C division: the quotient q with a = q * b + r, |r| < |b|, r of the sign of a
TruncDiv(a, b) ==
  CHOOSE q \in (0 - Abs(a))..Abs(a) :
    \E r \in (0 - Abs(b))..Abs(b) :
      /\ a = q * b + r
      /\ Abs(r) < Abs(b)
      /\ r = 0 \/ (r < 0) = (a < 0)

Truth(b) == IF b THEN 1 ELSE 0

\* the value of a reference expression with x holding x0: the value, the
\* value of x afterwards, and whether every division had a divisor # 0
RECURSIVE Eval(_, _)
Eval(t, x0) ==
  CASE t.k = "lit" -> [v |-> t.n, x |-> x0, ok |-> TRUE]
    [] t.k = "var" -> [v |-> x0, x |-> x0, ok |-> TRUE]
    [] t.k = "neg" -> LET e == Eval(t.e, x0)
                      IN  [v |-> 0 - e.v, x |-> e.x, ok |-> e.ok]
    [] t.k = "asg" -> LET e == Eval(t.e, x0)
                      IN  [v |-> e.v, x |-> e.v, ok |-> e.ok]
    [] t.k = "bin" ->
         LET l == Eval(t.l, x0)
             r == Eval(t.r, l.x)
             a == l.v
             b == r.v
         IN  IF ~(l.ok /\ r.ok) \/ (t.op = "/" /\ b = 0)
             THEN [v |-> 0, x |-> r.x, ok |-> FALSE]
             ELSE [v |-> CASE t.op = "+" -> a + b
                           [] t.op = "-" -> a - b
                           [] t.op = "*" -> a * b
                           [] t.op = "/" -> TruncDiv(a, b)
                           [] t.op = "<" -> Truth(a < b)
                           [] t.op = "<=" -> Truth(a <= b)
                           [] t.op = ">" -> Truth(a > b)
                           [] t.op = ">=" -> Truth(a >= b)
                           [] t.op = "==" -> Truth(a = b)
                           [] t.op = "!=" -> Truth(a # b),
                   x |-> r.x, ok |-> TRUE]

\* int x = 7; <expression>;
ExSource(t) == <<105, 110, 116, 32, 120, 32, 61, 32, 55, 59, 32>> \o Render(t) \o <<59>>

\* the program was compiled, or the parser threw, and execution starts
InitEx ==
  /\ InitRt
  /\ PfIdle
  /\ SmIdle
  /\ ElfIdle
  /\ GuestShort
  /\ StIdle
  /\ AppIdle
  /\ exTree \in RefExprs
  /\ LET parsed == ParseProgram(ExSource(exTree)) IN
     /\ prog = [nodes |-> parsed.nodes, locals |-> parsed.locals]
     /\ ccStatus = IF parsed.ok THEN "running" ELSE "rejected"
  /\ compiled = Compile(prog)
  /\ ccPc = LabelLine(compiled.assembly, "_start", 0) + 1
  /\ ccStk = <<>>
  /\ ccBp = 0
  /\ ccRegs = [r \in RegNames |-> 0]
  /\ ccCmp = 0
  /\ ccOut = <<>>
  /\ ccExit = 0

NextEx == CcStep \/ CcExit

SpecEx == InitEx /\ [][NextEx]_vars

\* ------------------------------------------------------ the run control
\* App.runProgram under run events from the button and from Ctrl+Enter.
\* The engine and the assembler are seen from outside: assembleGas returns
\* or throws, engine.execute resolves with an exit code or rejects.

MaxApp == 4      \* run events delivered

ExitCodes == {0, 1, 42}

RunGuardDropped == FALSE
\* if (this._running) return;
RunGuard == appRunning

\* the catch block and the lines behind the try statement
RunFailed(end) ==
  /\ lastExit' = 1
  /\ appRunning' = FALSE
  /\ runBtn' = TRUE
  /\ lastEnd' = end

\* runProgram up to its await: the guard, the flag, the button, assembleGas
\* for language asm (asmOk: it returns), then the call of engine.execute
RunProgram(lang, asmOk) ==
  /\ runEvents' = runEvents + 1
  /\ IF RunGuard
     THEN UNCHANGED <<appRunning, runBtn, inFlight, lastExit, engineCalls,
                      asmCalls, lastEnd>>
     ELSE /\ asmCalls' = IF lang = "asm" THEN asmCalls + 1 ELSE asmCalls
          /\ IF lang = "asm" /\ ~asmOk
             THEN /\ RunFailed("assemble")
                  /\ UNCHANGED <<inFlight, engineCalls>>
             ELSE /\ appRunning' = TRUE
                  /\ runBtn' = FALSE
                  /\ engineCalls' = engineCalls + 1
                  /\ inFlight' = inFlight + 1
                  /\ UNCHANGED <<lastExit, lastEnd>>
  /\ UNCHANGED <<rtAll, fsVars, ccVars, pfVars, smVars, elfVars, guestLen,
                 stVars, exTree>>

Langs == {"c", "asm", "sh", "elf"}

\* run-btn.onclick: a disabled button delivers no click
RunClick ==
  /\ runEvents < MaxApp
  /\ runBtn
  /\ \E lang \in Langs, asmOk \in BOOLEAN : RunProgram(lang, asmOk)

\* keydown with ctrlKey or metaKey and key Enter
RunKey ==
  /\ runEvents < MaxApp
  /\ \E lang \in Langs, asmOk \in BOOLEAN : RunProgram(lang, asmOk)

\* the promise of engine.execute settles and runProgram runs to its end
ExecuteResolves ==
  /\ inFlight > 0
  /\ \E code \in ExitCodes : lastExit' = code
  /\ appRunning' = FALSE
  /\ runBtn' = TRUE
  /\ lastEnd' = "exit"
  /\ inFlight' = inFlight - 1
  /\ UNCHANGED <<engineCalls, asmCalls, runEvents>>
  /\ UNCHANGED <<rtAll, fsVars, ccVars, pfVars, smVars, elfVars, guestLen,
                 stVars, exTree>>

ExecuteRejects ==
  /\ inFlight > 0
  /\ RunFailed("execute")
  /\ inFlight' = inFlight - 1
  /\ UNCHANGED <<engineCalls, asmCalls, runEvents>>
  /\ UNCHANGED <<rtAll, fsVars, ccVars, pfVars, smVars, elfVars, guestLen,
                 stVars, exTree>>

InitApp ==
  /\ InitRt
  /\ CcIdle
  /\ PfIdle
  /\ ExtIdle

NextApp == RunClick \/ RunKey \/ ExecuteResolves \/ ExecuteRejects

SpecApp == InitApp /\ [][NextApp]_vars

\* ================================================================ claims
\* the hook returned commit in this step
Committed == instrCount' = instrCount + 1

\* a hook invocation ends in this step (commit, stop or exception)
HookDone == phase \in {"running", "suspended"} /\ phase' # "suspended"

\* C1: within one run every fd a successful open returns is >= 3 and greater
\* than every fd an earlier open of the run returned, and is never an fd that
\* was closed in the run.
C1_OpenFdsIncrease ==
  [][(HookDone /\ Committed /\ regs'.num = U64(2) /\ IsSmall(rax')) =>
       /\ ToNat(rax') >= 3
       /\ \A i \in DOMAIN opened : opened[i] < ToNat(rax')
       /\ ToNat(rax') \notin closed]_vars

\* an open returned a new fd after the fd of an earlier open was closed
C1_Witness ==
  /\ phase = "running"
  /\ regs.num = U64(2)
  /\ Len(opened) = 2
  /\ opened[1] \in closed
  /\ rax = U64(opened[2])

\* C2: at every syscall boundary program_break >= heap_base and
\* program_break - heap_base <= 16 MiB.
C2_BreakInHeap == brk >= heapStart /\ brk - heapStart <= HeapLimitBytes

\* the break was moved to the highest address brk accepts
C2_Witness ==
  /\ phase = "running"
  /\ regs.num = U64(12)
  /\ heapMapped
  /\ brk = heapStart + HeapLimitBytes - 1

\* C3: with the sinks installed, a write on fd 1 (fd 2) invokes on_stdout
\* (on_stderr) exactly once with the decoded len bytes at buf and no other
\* sink, writes len into RAX and commits.
C3_WriteOneSinkCall ==
  [][(phase = "running" /\ regs'.num = U64(1)) =>
       LET lo   == ToNat(regs'.rsi)
           text == Decode(SubSeq(gmem, lo + 1, lo + ToNat(regs'.rdx)))
       IN  /\ (regs'.rdi = U64(1) /\ onStdout) =>
                /\ out' = Append(out, [sink |-> "stdout", text |-> text])
                /\ rax' = regs'.rdx
                /\ Committed
           /\ (regs'.rdi = U64(2) /\ onStderr) =>
                /\ out' = Append(out, [sink |-> "stderr", text |-> text])
                /\ rax' = regs'.rdx
                /\ Committed]_vars

\* a write on fd 1 and then one on fd 2 each made their one sink call
C3_Witness ==
  /\ phase = "running"
  /\ regs.num = U64(1)
  /\ regs.rdi = U64(2)
  /\ Len(out) = 2
  /\ out[1].sink = "stdout"
  /\ out[2].sink = "stderr"
  /\ rax = regs.rdx

RECURSIVE StdoutText(_)
StdoutText(calls) ==
  IF calls = <<>> THEN <<>>
  ELSE (IF Head(calls).sink = "stdout" THEN Head(calls).text ELSE <<>>)
       \o StdoutText(Tail(calls))

RECURSIVE Fd1Bytes(_)
Fd1Bytes(w) ==
  IF w = <<>> THEN <<>>
  ELSE (IF Head(w).fd = U64(1) THEN Head(w).buf ELSE <<>>) \o Fd1Bytes(Tail(w))

\* C4: with the sinks installed, the sink invocations of a run are those of
\* its write syscalls on fd 1 and fd 2 in the order the syscalls executed,
\* and the concatenated on_stdout arguments are exactly the bytes written
\* to fd 1.
C4_SinkOrderAndBytes ==
  (onStdout /\ onStderr) =>
    /\ Len(out) = Len(wlog)
    /\ \A i \in DOMAIN out :
         out[i].sink = (IF wlog[i].fd = U64(1) THEN "stdout" ELSE "stderr")
    /\ Encode(StdoutText(out)) = Fd1Bytes(wlog)

\* the syscall numbers the hook handles
KnownNums == {U64(0), U64(1), U64(2), U64(3), U64(4), U64(5), U64(9),
              U64(12), U64(60), U64(231)}

\* C5: for a syscall number outside {0,1,2,3,4,5,9,12,60,231} the hook
\* writes 0xFFFFFFFFFFFFFFDA into RAX and commits, invokes no sink and leaves
\* the FD table, the fd counter and the heap state unchanged.
C5_UnknownIsEnosys ==
  [][(phase = "running" /\ regs'.num \notin KnownNums) =>
       /\ Committed
       /\ phase' = "running"
       /\ rax' = <<65535, 65535, 65535, 65498>>
       /\ UNCHANGED <<fds, nextFd, brk, heapMapped, out>>]_vars

\* an unknown syscall returned -ENOSYS while a descriptor was open
C5_Witness ==
  /\ phase = "running"
  /\ regs.num = U64(999)
  /\ rax = <<65535, 65535, 65535, 65498>>
  /\ fds # EmptyMap

\* C6: after exit / exit_group with n in RDI the exit code of the run result
\* is n & 0xFF.
C6_ExitCodeMasked == (result = "returned") => exitCode = And255(regs.rdi)

\* fd is not the number of a descriptor that is open in this run
NotOpen(fd) ==
  \/ \E k \in closed : U64(k) = fd
  \/ ~(\E i \in DOMAIN opened : U64(opened[i]) = fd)

\* C7: a read or a close on an fd that was closed in this run, and a read on
\* an fd that was never opened, return -EBADF (0xFFFFFFFFFFFFFFF7) and
\* change no descriptor's entry or offset.
C7_ClosedStaysInvalid ==
  [][(phase = "running" /\ regs'.num \in {U64(0), U64(3)} /\ NotOpen(regs'.rdi)) =>
       /\ Committed
       /\ rax' = <<65535, 65535, 65535, 65527>>
       /\ fds' = fds]_vars

\* a read on an fd that was opened and closed returned -EBADF
C7_Witness ==
  /\ phase = "running"
  /\ regs.num = U64(0)
  /\ vfs
  /\ \E k \in closed : U64(k) = regs.rdi
  /\ rax = <<65535, 65535, 65535, 65527>>

\* C8: with a file store attached, an open of a path the store does not
\* contain returns -ENOENT (0xFFFFFFFFFFFFFFFE), commits and leaves the FD
\* table and the fd counter unchanged; an open of an existing path allocates
\* the next fd with offset 0.
C8_OpenMissingIsEnoent ==
  [][(HookDone /\ regs'.num = U64(2) /\ vfs) =>
       LET path == GuestPaths[ToNat(regs'.rdi)] IN
         IF path \notin DOMAIN vmem /\ path \notin DOMAIN vdb
           THEN /\ Committed
                /\ rax' = <<65535, 65535, 65535, 65534>>
                /\ UNCHANGED <<fds, nextFd>>
           ELSE /\ Committed
                /\ rax' = U64(nextFd)
                /\ nextFd' = nextFd + 1
                /\ fds' = MapSet(fds, nextFd, [path |-> path, offset |-> 0])]_vars

\* C9: brk(addr) with addr # 0 sets the break to addr and returns addr
\* exactly when heap_base <= addr < heap_base + 16 MiB; for every other addr
\* it returns the current break and leaves it unchanged.
C9_BrkAcceptsExactlyHeapRange ==
  [][(phase = "running" /\ regs'.num = U64(12) /\ regs'.rdi # U64(0)) =>
       /\ Committed
       /\ IF /\ Le64(U64(heapStart), regs'.rdi)
             /\ Lt64(regs'.rdi, U64(heapStart + HeapLimitBytes))
            THEN brk' = ToNat(regs'.rdi) /\ rax' = regs'.rdi
            ELSE brk' = brk /\ rax' = U64(brk)]_vars

\* brk(heap_base + 16 MiB) was refused with the break at heap_base + 16 MiB - 1
C9_Witness ==
  /\ phase = "running"
  /\ regs.num = U64(12)
  /\ regs.rdi = U64(heapStart + HeapLimitBytes)
  /\ brk = heapStart + HeapLimitBytes - 1
  /\ rax = U64(brk)

\* C10: every entry to run() that gets to execute guest code starts with an
\* empty FD table, fd counter 3, program_break = heap_base and mapped = false,
\* whatever the previous run left; brk(0) as the first brk of a run returns
\* heap_base.
C10_RunEntryResets ==
  /\ [][(phase = "idle" /\ phase' = "running") =>
          /\ fds' = EmptyMap
          /\ nextFd' = 3
          /\ brk' = heapStart
          /\ heapMapped' = FALSE]_vars
  /\ [][(phase = "running" /\ regs'.num = U64(12) /\ regs'.rdi = U64(0)
         /\ ~brkCalls) => rax' = U64(heapStart)]_vars

\* in a run entered on a runtime whose previous run left state behind, the
\* first brk was brk(0) and returned heap_base
C10_Witness ==
  /\ phase = "running"
  /\ prev
  /\ regs.num = U64(12)
  /\ regs.rdi = U64(0)
  /\ brkCalls
  /\ instrCount = 1
  /\ rax = U64(heapStart)

\* C11: at the start of every run, before the first guest instruction, the
\* FD table holds exactly the descriptors 0, 1 and 2.
C11_StdDescriptorsAtRunStart ==
  (phase = "running" /\ instrCount = 0) => DOMAIN fds = {0, 1, 2}

\* run() is called
RunEntry == phase = "idle" /\ runs' = runs + 1

\* C12: run() before load() has completed rejects and changes neither the
\* FD/heap state nor the emulator; once loaded the runtime stays loaded and
\* run() starts executing.
C12_RunNeedsLoad ==
  /\ [][RunEntry =>
         IF ~initialized
           THEN /\ result' = "rejected"
                /\ UNCHANGED <<rtVars, emuVars, phase, instrCount, regs, rax>>
           ELSE /\ phase' = "running"
                /\ result' # "rejected"]_vars
  /\ [][initialized => initialized']_vars

\* run() was called before load() and rejected; the runtime is untouched
C12_Witness ==
  /\ ~initialized
  /\ runs = 1
  /\ result = "rejected"
  /\ phase = "idle"
  /\ fds = EmptyMap /\ nextFd = 3 /\ brk = heapStart

\* C15: no guest syscall makes run() reject: every handler reports its
\* condition as an errno in RAX and commits.
C15_NoHostError == phase # "failed"

\* C13: a read that returns after write(path, b), with no later write or
\* delete, yields b - also when the put is pending or failed and when a get
\* of the same path was in flight at the write.
C13_ReadSeesLastWrite ==
  (rd # NoRead /\ rd.path \in DOMAIN lastW) => rd.data = lastW[rd.path]

\* C14: after any writes and deletes, a read of a seeded path returns the
\* seeded content.
C14_SeededReadOnly ==
  (rd # NoRead /\ rd.path \in SeedPaths) => rd.data = SeedDefaults[rd.path]

\* C16: running a C source as language c and running the front end's output
\* as language asm give the same exit code and the same stdout bytes.
C16_CPathEqualsAsmPath ==
  (ccStatus = "exited") =>
     /\ RunProgramC(SourceOf(prog)).exitCode = ccExit
     /\ RunProgramC(SourceOf(prog)).stdout = ccOut

Range(f) == {f[i] : i \in DOMAIN f}

\* execution is at the first line of a top-level statement or at .L.exit
AtBoundary ==
  /\ ccStatus = "running"
  /\ \/ ccPc \in Range(compiled.sourceMap)
     \/ ccPc = LabelLine(compiled.assembly, ".L.exit", 0)

\* C17: every statement, in every position, leaves the stack depth as it
\* found it: at each top-level statement boundary nothing is left on top of
\* the frame.
C17_StackBalanced == AtBoundary => Depth(prog.locals) = 0

\* the format up to its terminator
RECURSIVE UpToNul(_)
UpToNul(mem) ==
  IF mem = <<>> \/ Head(mem) = 0 THEN <<>> ELSE <<Head(mem)>> \o UpToNul(Tail(mem))

\* unsigned decimal digits of a limb tuple
RECURSIVE Decimal(_, _)
Decimal(x, tail) ==
  LET d == DivTen(x, 0) IN
  IF d.q = <<0, 0, 0, 0>> THEN <<48 + d.r>> \o tail
  ELSE Decimal(d.q, <<48 + d.r>> \o tail)

\* base-10 rendering of a 64-bit value read as a signed integer
SignedDecimal(v) ==
  IF v[1] >= 32768 THEN <<45>> \o Decimal(Neg64(v), <<>>) ELSE Decimal(v, <<>>)

\* the format with %d replaced by the number and every other pair of '%' and
\* the byte after it removed
RECURSIVE Formatted(_, _)
Formatted(f, v) ==
  IF f = <<>> THEN <<>>
  ELSE IF Head(f) # 37 THEN <<Head(f)>> \o Formatted(Tail(f), v)
  ELSE IF Len(f) = 1 THEN <<>>
  ELSE IF f[2] = 100 THEN SignedDecimal(v) \o Formatted(Tail(Tail(f)), v)
  ELSE Formatted(Tail(Tail(f)), v)

\* C18: the bytes __printf writes to fd 1 are the format with every %d
\* replaced by the signed decimal rendering of the argument and every other
\* '%' pair removed; the routine returns 0 in RAX.
C18_PrintfOutput ==
  (pfStatus = "returned") =>
     /\ Flatten(pfWrites) = Formatted(UpToNul(pfMem), pfVal)
     /\ pfRax = U64(0)

RECURSIVE CountReturns(_)
RECURSIVE CountReturnsSeq(_)
CountReturns(node) ==
  CASE node.type = "return" -> 1
    [] node.type = "if" -> CountReturns(node.then) + CountReturns(node.els)
    [] node.type = "while" -> CountReturns(node.body)
    [] node.type = "block" -> CountReturnsSeq(node.stmts)
    [] OTHER -> 0

CountReturnsSeq(nodes) ==
  IF nodes = <<>> THEN 0
  ELSE CountReturns(Head(nodes)) + CountReturnsSeq(Tail(nodes))

\* C19: _start has no ret, every return statement is a jump to the one label
\* .L.exit, the program ends only in the epilogue's exit with status 0, and
\* control never runs into the __printf subroutine behind it.
C19_ExitsThroughEpilogue ==
  (ccStatus # "idle") =>
     /\ \A i \in 1 .. StubStart - 1 : compiled.assembly[i].op # "ret"
     /\ Cardinality({i \in DOMAIN compiled.assembly :
                       compiled.assembly[i] = Asm("jmp", ".L.exit", "", 0)})
          = CountReturnsSeq(prog.nodes)
     /\ Cardinality({i \in DOMAIN compiled.assembly :
                       compiled.assembly[i] = Label(".L.exit", 0)}) = 1
     /\ ccPc < StubStart - 1
     /\ (ccStatus = "exited") =>
          /\ ccExit = 0
          /\ ccPc = StubStart - 2
          /\ compiled.assembly[ccPc].op = "syscall"

\* the program `int x = 0; return 5;` has ended
C19_Witness ==
  /\ ccStatus = "exited"
  /\ prog.nodes = <<Assign("x", Num(0)), Return(Num(5))>>

\* C20: the source map has one record per top-level statement, its records
\* are strictly increasing, and every record lies inside .text.
C20_SourceMapIncreasing ==
  (ccStatus # "idle") =>
     LET sm == compiled.sourceMap IN
     /\ Len(sm) = Len(prog.nodes)
     /\ \A i, j \in DOMAIN sm : i < j => sm[i] < sm[j]
     /\ \A i \in DOMAIN sm :
          /\ sm[i] > LabelLine(compiled.assembly, "_start", 0)
          /\ sm[i] < StubStart - 1

\* the source map came from the C front end
FromFrontEnd(sm) == sm # <<>> /\ \A i \in DOMAIN sm : "srcLine" \in DOMAIN sm[i]

\* C21: a fault during a run that was given the C front end's source map
\* rejects with the annotated (or, with no record at or below the fault,
\* the plain) execution error, whose line and column are those of a record
\* of the map; the lookup raises no other error.
C21_FaultAnnotated ==
  (smStatus = "rejected" /\ FromFrontEnd(smMap)) =>
     /\ smErr.kind = "Error"
     /\ \/ smErr.line = 0 /\ smErr.col = 0
        \/ \E i \in DOMAIN smMap :
             smErr.line = smMap[i].srcLine /\ smErr.col = smMap[i].srcCol

ReadU16(bytes, at) == bytes[at + 1] + 256 * bytes[at + 2]
\* the u64 at byte offset at, as 16-bit limbs, most significant first
ReadU64(bytes, at) ==
  <<ReadU16(bytes, at + 6), ReadU16(bytes, at + 4), ReadU16(bytes, at + 2),
    ReadU16(bytes, at)>>
\* the signed 32-bit and 64-bit values at byte offset at, as <<h, l>>
ReadS32(bytes, at) ==
  LET h == ReadU16(bytes, at + 2)
  IN  <<IF h >= 32768 THEN h - 65536 ELSE h, ReadU16(bytes, at)>>
ReadS64(bytes, at) ==
  LET l2 == ReadU16(bytes, at + 4)
  IN  <<ReadU16(bytes, at + 2)
          + 65536 * (IF ReadU16(bytes, at + 6) = 65535 THEN l2 - 65536 ELSE l2),
        ReadU16(bytes, at)>>

HeaderFields ==
  /\ SubSeq(elf.bytes, 1, 4) = <<127, 69, 76, 70>>
  /\ ReadU16(elf.bytes, 16) = 2
  /\ ReadU16(elf.bytes, 18) = 62

EntryIs(n) == ReadU64(elf.bytes, 24) = <<0, 0, W(n)[1], W(n)[2]>>

\* C22: an image built for a source whose _start labels a byte of .text
\* starts with 7F 45 4C 46, holds 2 at offset 16 and 0x3E at offset 18, and
\* its entry address at offset 24 is 0x400078 + offset of _start, inside
\* [0x400078, 0x400078 + len(.text)).
C22_HeaderAndEntry ==
  (elf.status = "image" /\ asmSt.start \in 0..(asmSt.textLen - 1)) =>
     /\ HeaderFields
     /\ EntryIs(4194424 + asmSt.start)
     /\ \E n \in 4194424..(4194424 + asmSt.textLen - 1) : EntryIs(n)

C22_Witness ==
  /\ elf.status = "image"
  /\ asmSt.start = 1
  /\ asmSt.textLen > 1
  /\ HeaderFields
  /\ EntryIs(4194425)

\* C22 as stated, for every source defining _start: the entry address lies
\* in [0x400078, 0x400078 + len(.text)).
C22_AsStated ==
  (elf.status = "image" /\ asmSt.start # -1) =>
     /\ HeaderFields
     /\ EntryIs(4194424 + asmSt.start)
     /\ \E n \in 4194424..(4194424 + asmSt.textLen - 1) : EntryIs(n)

\* C23: building from a source without a _start symbol fails and produces
\* no image.
C23_MissingStartIsFatal ==
  (elf.status # "none" /\ asmSt.start = -1) =>
     elf.status = "error" /\ elf.bytes = <<>>

\* the bytes of the section a relocation patches, inside the image
SiteInImage(r) ==
  HEADER_SZ + (IF r.src = ".data" THEN asmSt.textLen ELSE 0) + PatchAt(r)

\* the value stored at the patch site
Stored(r) ==
  IF r.size = 32 THEN ReadS32(elf.bytes, SiteInImage(r))
  ELSE ReadS64(elf.bytes, SiteInImage(r))

\* the section addresses and the values of the claim
ClaimVA(name) ==
  CASE name = ".text" -> 4194424
    [] name = ".data" -> 4194424 + asmSt.textLen
    [] name = ".bss"  -> 4194424 + asmSt.textLen + asmSt.dataLen
ClaimValue(r) ==
  IF r.pcRelative
  THEN W((ClaimVA(r.tgt) + r.symOff) - (ClaimVA(r.src) + PatchAt(r) + 4))
  ELSE WAdd(W(ClaimVA(r.tgt) + r.symOff), r.addend)

\* C24: for every relocation with a target in .text, .data or .bss that was
\* resolved, the signed little-endian value at the patch site is
\* (target va + symbol offset) - (source va + patch site + 4) for a
\* PC-relative 4-byte record and target va + symbol offset + addend for an
\* absolute record.
C24_PatchValues ==
  elf.status = "image" =>
     \A i \in DOMAIN asmSt.relocations :
        LET r == asmSt.relocations[i]
        IN  (Patched(asmSt, r) /\ (r.pcRelative => r.size = 32)) =>
               Stored(r) = ClaimValue(r)

Fits32(w) == w[1] \in -32768..32767

\* C25: when the value computed for a 4-byte patch does not fit a signed
\* 32-bit integer, building fails and returns no image.
C25_OverflowIsFatal ==
  (/\ elf.status # "none"
   /\ asmSt.textLen > 0
   /\ \E i \in DOMAIN asmSt.relocations :
        LET r == asmSt.relocations[i]
        IN  Patched(asmSt, r) /\ r.size = 32 /\ ~Fits32(Patch(asmSt, r)))
  => elf.status = "error" /\ elf.bytes = <<>>

\* what rt.vfs.read(file.path) hands the read handler: the map's bytes, or
\* for a read that waited for the database the stored value
ReadData ==
  LET path == fds[FdKey(regs'.rdi)].path
  IN  IF phase = "suspended" THEN DbValue(path)
      ELSE IF path \in DOMAIN vmem THEN vmem[path] ELSE Null

\* a read on an open descriptor of a stored file returns in this step
ReadReturns ==
  /\ HookDone
  /\ Committed
  /\ regs'.num = U64(0)
  /\ vfs
  /\ HasFd(regs'.rdi)
  /\ ReadData # Null

\* C26: a read of len bytes on an open fd at offset o of a file of length L
\* returns n = min(len, L - o) with 0 <= n <= len, copies bytes [o, o + n)
\* of the file to the buffer and advances that fd's offset, and no other,
\* by n; the offset stays within 0..L.
C26_ReadSlices ==
  [][ReadReturns =>
       LET k    == FdKey(regs'.rdi)
           data == ReadData
           o    == fds[k].offset
           len  == ToNat(regs'.rdx)
           ptr  == ToNat(regs'.rsi)
           n    == IF len < Len(data) - o THEN len ELSE Len(data) - o
       IN  /\ 0 <= o /\ o <= Len(data)
           /\ 0 <= n /\ n <= len
           /\ rax' = U64(n)
           /\ SubSeq(gmem', ptr + 1, ptr + n) = SubSeq(data, o + 1, o + n)
           /\ fds' = [fds EXCEPT ![k].offset = o + n]
           /\ fds'[k].offset <= Len(data)]_vars

\* the index of the first str node with the literal of the i-th
FirstAt(strs, i) ==
  CHOOSE f \in 1..i : strs[f] = strs[i] /\ \A g \in 1..(f - 1) : strs[g] # strs[i]

\* C27: in a compiled program identical raw literals share one label,
\* distinct literals have distinct labels .L.str.<n> with n the number of
\* distinct literals occurring before the literal's first occurrence, and
\* every string expression refers to the label whose .data entry holds its
\* own literal.
C27_StringLabels ==
  stOut.status = "compiled" =>
     \A i \in DOMAIN stOut.strs :
        /\ stOut.labels[i] + 1 \in DOMAIN stOut.data
        /\ stOut.data[stOut.labels[i] + 1] = stOut.strs[i]
        /\ \A j \in DOMAIN stOut.strs :
             (stOut.strs[i] = stOut.strs[j]) = (stOut.labels[i] = stOut.labels[j])
        /\ stOut.labels[i] =
             Cardinality({stOut.strs[j] : j \in 1..(FirstAt(stOut.strs, i) - 1)})

\* the line of the pop that follows the code of the expression statement
ExprEnd == LabelLine(CcCode, ".L.exit", 0) - 1

\* C28: the code generated for an expression never pops below the depth at
\* its entry, leaves exactly one more word on the stack, and that word is
\* the value of the expression under C precedence and left associativity,
\* operands evaluated left to right; an assignment has stored its value in
\* the variable's slot.
C28_ExprValue ==
  (exTree # NoTree /\ Eval(exTree, 7).ok) =>
     /\ ccStatus # "rejected"
     /\ (ccStatus = "running" /\ ccPc \in compiled.sourceMap[2]..ExprEnd) =>
           Depth(prog.locals) >= 0
     /\ (ccStatus = "running" /\ ccPc = ExprEnd) =>
           /\ Depth(prog.locals) = 1
           /\ Top = Eval(exTree, 7).v
           /\ ccStk[LocalSlot(-8)] = Eval(exTree, 7).x

\* (2 - x) / (x = 2) was evaluated: -5 / 2 is -2 and x holds 2
C28_Witness ==
  /\ ccStatus = "running"
  /\ ccPc = ExprEnd
  /\ exTree = Bin("/", Bin("-", Lit(2), VarX), Asg(Lit(2)))
  /\ Top = -2
  /\ ccStk[LocalSlot(-8)] = 2


\* the address of the format's terminator
Terminator == Len(UpToNul(pfMem))

\* C29: __printf reads no format byte behind the terminating NUL, its scan
\* pointer stops at the terminator, and it returns with rbx, r12, r13, rbp
\* and rsp holding their values at entry.
C29_ScanStopsAtNul ==
  (pfStatus = "returned") =>
     /\ \A i \in DOMAIN pfReads : pfReads[i] <= Terminator
     /\ pfReads[Len(pfReads)] = Terminator
     /\ pfRegs = pfEntry

\* formats that do not end in '%' after the pairs are taken: the scan stops
\* at the terminator and the registers are restored
C29_Try ==
  (pfStatus = "returned" /\ Formatted(UpToNul(pfMem), pfVal) = Flatten(pfWrites)) =>
     /\ \A i \in DOMAIN pfReads : pfReads[i] <= Terminator
     /\ pfReads[Len(pfReads)] = Terminator
     /\ pfRegs = pfEntry


\* a run event is delivered in this step
RunEvent == runEvents' = runEvents + 1

\* a run ends in this step: its promise settles, or assembleGas throws
RunEnds == inFlight' < inFlight \/ (RunEvent /\ asmCalls' # asmCalls /\ inFlight' = inFlight)

\* C30: at most one run is in progress at any time; a run event that arrives
\* while a run is in progress calls neither the assembler nor the engine and
\* changes nothing the user sees; when a run ends, however it ends, the
\* running flag is cleared and the run button enabled, and a run that failed
\* in assembling or executing shows exit code 1.
C30_RunsSerialized ==
  [][/\ inFlight' <= 1
     /\ appRunning' = (inFlight' = 1)
     /\ (RunEvent /\ inFlight = 1) =>
           UNCHANGED <<engineCalls, asmCalls, inFlight, appRunning, runBtn,
                       lastExit, lastEnd>>
     /\ RunEnds => /\ appRunning' = FALSE
                   /\ runBtn' = TRUE
                   /\ inFlight' = 0
                   /\ (lastEnd' \in {"assemble", "execute"}) => lastExit' = 1]_vars

\* a run event was dropped while a run was in progress, and a run has ended
\* in a rejected execute
C30_Witness ==
  /\ runEvents > engineCalls + asmCalls
  /\ lastEnd = "execute"
  /\ lastExit = 1
  /\ ~appRunning
  /\ runBtn

====
